---- MODULE Spec2Model ----
(***************************************************************************)
(* Network control plane of nova/network/model.py: the VLAN allocator      *)
(* (get_vlan_for_project over the Redis hash "vlans") and the per-VLAN     *)
(* DHCP network with its lease map and dnsmasq life cycle.                 *)
(*                                                                         *)
(* Store accesses (hget, hgetall, hset, hdel, AuthManager.get_project) are *)
(* the atomic steps; a caller's local computation is merged with the store *)
(* access that follows it.                                                 *)
(***************************************************************************)
EXTENDS Integers, Sequences, FiniteSets, TLC

\* ------------------------------------------------------------------ bounds
\* Number of ids in the VLAN pool (FLAGS.vlan_end - FLAGS.vlan_start).
MaxVlans == 3

\* Addresses in each private subnet: FLAGS.network_size (256) cut down.
network_size == 11

\* ------------------------------------------------------- program constants
\* NUM_STATIC_IPS = 3 # Network, Gateway, and CloudPipe
NUM_STATIC_IPS == 3
\* flags.DEFINE_integer('cnt_vpn_clients', 5, ...)
cnt_vpn_clients == 5
\* FLAGS.public_range 4.4.4.0/24: its first address as a number, and the size
\* the model gives the block.
public_range == 67372032
public_size == 5
public_vlan == 1
\* IPy.IP(FLAGS.private_range).int() for '10.0.0.0/8'
private_range == 167772160
\* flags.DEFINE_integer('vlan_start', 100, ...)
vlan_start == 100
\* FLAGS.vlan_end, cut down to a pool of MaxVlans ids.
vlan_end == vlan_start + MaxVlans

\* Project ids the callers may name; the live ones are in `projects`.
ProjectIds == {"A", "B", "C", "D"}
\* Request handlers that may run get_vlan_for_project.
Procs == {1, 2}

VARIABLES
    projects,   \* AuthManager: the project ids that exist
    vlans,      \* Redis hash "vlans": project_id -> vlan number as a string
    callers,    \* the handlers that may start a call (one, or both)
    call,       \* per handler: position and locals of get_vlan_for_project
    firstRet,   \* history: number returned by the first successful call per project
    between,    \* history: another tenant's call completed since that first return
    network,    \* the DHCPNetwork record of one tenant (vlan, network_str, ...)
    hosts,      \* Redis hash "network:<network_str>:hosts": address -> target
    backend,    \* linux_net: interfaces, bridges, dnsmasq and iptables rules
    last,       \* history: the latest network call, its argument and outcome
    alloc,      \* per handler: position and locals of an interleaved allocate_ip
    pubHosts,   \* store: the public network's hosts hash, address -> project_id
    records,    \* store: the PublicAddress hashes, address -> state
    assoc,      \* per handler: position and locals of an interleaved associate_address
    plast,      \* history: the latest public-pool call, its arguments and outcome
    nets,       \* store: the network hashes, network_id -> state
    hostsBy,    \* store: the hosts hashes of those networks, network_str -> hash
    pnet,       \* history: what get_project_network returned, per project
    auth        \* the API's token table, its users, the clock and the latest call

vlanVars == <<projects, vlans, callers, call, firstRet, between>>
pubVars == <<pubHosts, records, assoc, plast>>
projVars == <<nets, hostsBy, pnet, auth>>
netVars == <<network, hosts, backend, last, alloc, pubVars, projVars>>

\* ----------------------------------------------------------- Redis values
\* redis-py stores str(value) and hands strings back.
Str(n) == ToString(n)
VlanRange == vlan_start .. (vlan_end - 1)
\* int(s) of a decimal string written by hset for an id of the pool.
ParseInt(s) == CHOOSE n \in VlanRange : Str(n) = s

\* A vlan_id as Python holds it: the int passed to Vlan.create, or the str
\* that Vlan.lookup read from Redis.
IntId(n) == [int |-> n]
StrId(s) == [str |-> s]
\* str(vlan_id): what hset writes for it.
StrOf(id) == IF "int" \in DOMAIN id THEN Str(id.int) ELSE id.str
\* int(self.vlan_id), as Vlan.subnet reads the id.
VlanNum(id) == IF "int" \in DOMAIN id THEN id.int ELSE ParseInt(id.str)

HSet(tbl, k, v) == [x \in (DOMAIN tbl) \cup {k} |-> IF x = k THEN v ELSE tbl[x]]
HDel(tbl, k) == [x \in (DOMAIN tbl) \ {k} |-> tbl[x]]
EmptyHash == [x \in {} |-> ""]

\* ------------------------------------------------------------- class Vlan
Vlan(project, vlan) == [project_id |-> project, vlan_id |-> vlan]
NoVlan == [project_id |-> "", vlan_id |-> StrId("")]

\* A lookup that never finds the record.
VlanLookupMiss(tbl, project) == NoVlan

\* Vlan.lookup: hget(set_name, project); a missing field gives None.
VlanLookup(tbl, project) ==
    IF project \in DOMAIN tbl /\ tbl[project] # ""
    THEN Vlan(project, StrId(tbl[project]))
    ELSE NoVlan

\* Vlan.save: hset(set_name, self.project_id, self.vlan_id).
VlanSave(tbl, v) == HSet(tbl, v.project_id, StrOf(v.vlan_id))

\* A destroy that leaves the record in place.
VlanDestroyKeeps(tbl, v) == tbl

\* Vlan.destroy: hdel(set_name, self.project_id).
VlanDestroy(tbl, v) == HDel(tbl, v.project_id)

\* An inversion that loses every entry.
DictByVlanEmpty(tbl) == {EmptyHash}

\* Vlan.dict_by_vlan: the hash inverted, retvals[hashset[val]] = val.  When
\* two projects hold one vlan the later key of the iteration wins; the
\* iteration order of a dict is arbitrary, so every such inverse is possible.
DictByVlan(tbl) ==
    LET vals == {tbl[p] : p \in DOMAIN tbl}
    IN  {f \in [vals -> DOMAIN tbl] : \A v \in vals : tbl[f[v]] = v}

\* manager.AuthManager().get_project(project_id): None once the project is gone.
GetProject(project_id) == project_id \in projects

\* --------------------------------------------------- get_vlan_for_project
\* A walk that steps over every other id.
NextVnumSkips(vnum) == vnum + 2

\* for vnum in range(FLAGS.vlan_start, FLAGS.vlan_end): the id after vnum.
NextVnum(vnum) == vnum + 1

NoRet == [status |-> "none", vlan |-> NoVlan, exc |-> "", via |-> ""]
Returned(v, via) == [status |-> "ok", vlan |-> v, exc |-> "", via |-> via]
Raised(e) == [status |-> "raise", vlan |-> NoVlan, exc |-> e, via |-> ""]

\* The exception of line 522, raised when the range walk ends.
OutOfVlans == "AddressNotAllocated"

Idle == [pc |-> "idle", project_id |-> "", known |-> EmptyHash, vnum |-> vlan_start,
         old_project_id |-> "", vlan |-> NoVlan, via |-> "", ret |-> NoRet,
         conc |-> FALSE, fresh |-> FALSE,
         startTbl |-> EmptyHash, startProjects |-> {}]

Running(q) == call[q].pc \notin {"idle", "done"}

\* History kept when a call completes with result r.
Finish(q, r) ==
    LET p == call[q].project_id
        n == IF r.status = "ok" THEN VlanNum(r.vlan.vlan_id) ELSE 0
    IN  /\ call' = [call EXCEPT ![q].pc = "done", ![q].ret = r]
        /\ firstRet' = IF firstRet[p] = 0 THEN [firstRet EXCEPT ![p] = n] ELSE firstRet
        /\ between' = [x \in ProjectIds |->
                          IF x # p /\ firstRet[x] # 0 THEN TRUE ELSE between[x]]

\* A handler enters get_vlan_for_project(project_id).
Call(q, project_id) ==
    /\ q \in callers
    /\ IF Cardinality(callers) = 1
       THEN \A o \in Procs : ~Running(o)
       ELSE call[q].pc = "idle"
    /\ call' = [o \in Procs |->
                  IF o = q
                  THEN [Idle EXCEPT !.pc = "lookup", !.project_id = project_id,
                                    !.conc = \E x \in Procs \ {q} : Running(x),
                                    !.fresh = project_id \notin DOMAIN vlans,
                                    !.startTbl = vlans, !.startProjects = projects]
                  ELSE IF Running(o) THEN [call[o] EXCEPT !.conc = TRUE]
                  ELSE call[o]]
    /\ UNCHANGED <<projects, vlans, callers, firstRet, between, netVars>>

\* Lines 494-496: vlan = Vlan.lookup(project_id); if vlan: return vlan.
Lookup(q) ==
    /\ call[q].pc = "lookup"
    /\ LET v == VlanLookup(vlans, call[q].project_id)
       IN  IF v # NoVlan
           THEN Finish(q, Returned(v, "lookup"))
           ELSE /\ call' = [call EXCEPT ![q].pc = "dict"]
                /\ UNCHANGED <<firstRet, between>>
    /\ UNCHANGED <<projects, vlans, callers, netVars>>

\* Line 497: known_vlans = Vlan.dict_by_vlan().
Dict(q) ==
    /\ call[q].pc = "dict"
    /\ \E f \in DictByVlan(vlans) :
          call' = [call EXCEPT ![q].pc = "scan", ![q].known = f, ![q].vnum = vlan_start]
    /\ UNCHANGED <<projects, vlans, callers, firstRet, between, netVars>>

\* Lines 498-503 and 522: one turn of the range walk, up to its store access.
Scan(q) ==
    /\ call[q].pc = "scan"
    /\ LET c == call[q]
           vstr == Str(c.vnum)
       IN  IF c.vnum >= vlan_end
           THEN /\ Finish(q, Raised(OutOfVlans))
                /\ UNCHANGED vlans
           ELSE IF vstr \notin DOMAIN c.known
           THEN \* return Vlan.create(project_id, vnum)
                /\ vlans' = VlanSave(vlans, Vlan(c.project_id, IntId(c.vnum)))
                /\ Finish(q, Returned(Vlan(c.project_id, IntId(c.vnum)), "create"))
           ELSE IF ~GetProject(c.known[vstr])
           THEN /\ call' = [call EXCEPT ![q].pc = "relookup",
                                        ![q].old_project_id = c.known[vstr]]
                /\ UNCHANGED <<vlans, firstRet, between>>
           ELSE /\ call' = [call EXCEPT ![q].vnum = NextVnum(c.vnum)]
                /\ UNCHANGED <<vlans, firstRet, between>>
    /\ UNCHANGED <<projects, callers, netVars>>

\* Lines 504-505 and 520: vlan = Vlan.lookup(old_project_id); if vlan: ... else: ...
Relookup(q) ==
    /\ call[q].pc = "relookup"
    /\ LET v == VlanLookup(vlans, call[q].old_project_id)
       IN  IF v # NoVlan
           THEN call' = [call EXCEPT ![q].pc = "destroy", ![q].vlan = v]
           ELSE \* line 521: Vlan.create(project_id, vnum), whose save comes next
                call' = [call EXCEPT ![q].pc = "save",
                                     ![q].vlan = Vlan(call[q].project_id, IntId(call[q].vnum)),
                                     ![q].via = "create"]
    /\ UNCHANGED <<projects, vlans, callers, firstRet, between, netVars>>

\* Line 516: vlan.destroy().
Destroy(q) ==
    /\ call[q].pc = "destroy"
    /\ vlans' = VlanDestroy(vlans, call[q].vlan)
    /\ call' = [call EXCEPT ![q].pc = "save", ![q].via = "reclaim",
                            ![q].vlan = [call[q].vlan EXCEPT !.project_id = call[q].project_id]]
    /\ UNCHANGED <<projects, callers, firstRet, between, netVars>>

\* Lines 517-519 (vlan.project_id = project_id; vlan.save(); return vlan) and
\* the instance.save() of the Vlan.create of line 521.
Save(q) ==
    /\ call[q].pc = "save"
    /\ vlans' = VlanSave(vlans, call[q].vlan)
    /\ Finish(q, Returned(call[q].vlan, call[q].via))
    /\ UNCHANGED <<projects, callers, netVars>>

\* AuthManager: a project is deleted; its "vlans" entry stays behind.
DeleteProject(p) ==
    /\ p \in projects
    /\ (Cardinality(callers) = 1 => \A o \in Procs : ~Running(o))
    /\ projects' = projects \ {p}
    /\ UNCHANGED <<vlans, callers, call, firstRet, between, netVars>>

\* ------------------------------------------------------------ addresses
\* str(IPy.IP(n)): the dotted quad of address number n.
Dotted(n) == <<n \div 16777216, (n \div 65536) % 256, (n \div 256) % 256, n % 256>>
\* IPy.IP(s).int(): the number of a dotted quad.
Undot(s) == ((s[1] * 256 + s[2]) * 256 + s[3]) * 256 + s[4]

\* Vlan.subnet: "%s-%s" % (network[start], network[start + network_size - 1]).
Subnet(vlan_id) ==
    LET start == (VlanNum(vlan_id) - vlan_start) * network_size
    IN  [first |-> Dotted(private_range + start),
         last |-> Dotted(private_range + start + network_size - 1)]

\* len(self.network) and str(self.network[idx]) of IPy.IP(self['network_str']).
NetLen(net) == Undot(net.network_str.last) - Undot(net.network_str.first) + 1
NetAt(net, idx) == Dotted(Undot(net.network_str.first) + idx)

\* ---------------------------------------------------- linux_net (backend)
\* Rules as iptables would hold them: chain, destination, protocol, port, target.
Rule(chain, d, proto, dport, to) ==
    [chain |-> chain, d |-> d, proto |-> proto, dport |-> dport, to |-> to]

\* log: the backend calls made by the handler that ran last, in order.
NoBackend == [vlan_ifaces |-> {}, bridges |-> {}, dnsmasq |-> "stopped",
              dhcp_hosts |-> EmptyHash, rules |-> {}, public_ips |-> {},
              log |-> << >>]

\* A handler starts: no backend call of its own yet.
Entered(b) == [b EXCEPT !.log = << >>]

\* linux_net.vlan_create(net) / bridge_create(net): present afterwards.
VlanCreate(b, net) ==
    [b EXCEPT !.vlan_ifaces = @ \cup {net.vlan}, !.log = Append(@, "vlan_create")]
BridgeCreate(b, net) ==
    [b EXCEPT !.bridges = @ \cup {net.bridge_name}, !.log = Append(@, "bridge_create")]
\* linux_net.start_dnsmasq(net): writes the hosts file from net.hosts, then
\* starts dnsmasq or makes a running one reload it.
StartDnsmasq(b, net, h) ==
    [b EXCEPT !.dnsmasq = "running", !.dhcp_hosts = h, !.log = Append(@, "start_dnsmasq")]
\* linux_net.stop_dnsmasq(net).
StopDnsmasq(b, net) ==
    [b EXCEPT !.dnsmasq = "stopped", !.log = Append(@, "stop_dnsmasq")]
\* linux_net.confirm_rule(cmd): the rule is present afterwards.
ConfirmRule(b, rule) ==
    [b EXCEPT !.rules = @ \cup {rule}, !.log = Append(@, "confirm_rule")]

\* ------------------------------------------- BaseNetwork ... DHCPNetwork
\* BaseNetwork.create as DHCPNetwork.get_network_for_project calls it.
NetworkCreate(user_id, project_id, security_group, vlan_id) ==
    [network_id |-> <<project_id, security_group>>,
     network_str |-> Subnet(vlan_id),
     user_id |-> user_id, project_id |-> project_id,
     vlan |-> VlanNum(vlan_id), bridge_name |-> <<"br", VlanNum(vlan_id)>>]

NoNetwork == [network_id |-> <<"", "">>,
              network_str |-> [first |-> Dotted(0), last |-> Dotted(0)],
              user_id |-> "", project_id |-> "", vlan |-> 0, bridge_name |-> <<"br", 0>>]

\* A key listing that also names the gateway address 10.0.0.1.
AssignedWithGateway(h) == (DOMAIN h) \cup {Dotted(private_range + 1)}

\* BaseNetwork.assigned: hkeys(self._hosts_key).
Assigned(h) == DOMAIN h

\* An _add_host that loses the consumer target.
AddHostNoTarget(h, host, target) == HSet(h, host, "")
\* A _rem_host that removes nothing.
RemHostKeeps(h, host) == h

\* BaseNetwork._add_host / _rem_host: hset / hdel on the hosts hash.
AddHost(h, host, target) == HSet(h, host, target)
RemHost(h, host) == HDel(h, host)

\* A candidate range that forgets the addresses kept for vpn clients.
AvailableRangeToTop(net) == NUM_STATIC_IPS .. (NetLen(net) - 1 - 1)

\* A candidate range that stops one address early.
AvailableRangeShort(net) == NUM_STATIC_IPS .. (NetLen(net) - (1 + cnt_vpn_clients) - 2)

\* BaseNetwork.available: range(num_ips, len(self.network) - (1 + num_clients)).
AvailableRange(net) == NUM_STATIC_IPS .. (NetLen(net) - (1 + cnt_vpn_clients) - 1)

\* BaseNetwork.available: the candidates not in self.hosts, in ascending order.
Available(net, h) == {idx \in AvailableRange(net) : NetAt(net, idx) \notin DOMAIN h}

\* DHCPNetwork.express_cloudpipe: the two rules for the address at offset 2;
\* vpn_ip and vpn_port are those of the network's project.
ExpressCloudpipe(b, net) ==
    LET private_ip == NetAt(net, 2)
        b1 == ConfirmRule(b, Rule("FORWARD", private_ip, "udp", 1194, "ACCEPT"))
    IN  ConfirmRule(b1, Rule("PREROUTING", <<net.project_id, "vpn_ip">>, "udp",
                             <<net.project_id, "vpn_port">>, private_ip))

\* BridgedNetwork.express: vlan_create, then bridge_create.
BridgedExpress(b, net) == BridgeCreate(VlanCreate(b, net), net)

\* An express that starts dnsmasq before the bridge is there.
DhcpExpressDnsmasqFirst(b, net, h) ==
    LET b1 == IF Cardinality(DOMAIN h) > 0 THEN StartDnsmasq(b, net, h) ELSE b
    IN  ExpressCloudpipe(BridgedExpress(b1, net), net)

\* DHCPNetwork.express: the bridge, dnsmasq when an address is assigned, cloudpipe.
DhcpExpress(b, net, h) ==
    LET b1 == BridgedExpress(b, net)
        b2 == IF Cardinality(Assigned(h)) > 0 THEN StartDnsmasq(b1, net, h) ELSE b1
    IN  ExpressCloudpipe(b2, net)

\* DHCPNetwork.deexpress: stop dnsmasq when nothing is assigned, else restart it.
DhcpDeexpress(b, net, h) ==
    IF Cardinality(Assigned(h)) = 0 THEN StopDnsmasq(b, net) ELSE StartDnsmasq(b, net, h)

NoAddress == << >>
NoCall == [op |-> "", mac |-> "", address |-> NoAddress, status |-> "none",
           ret |-> NoAddress, exc |-> "", added |-> {}]

\* Consumer targets handed to the allocation calls.
Macs == {"02:16:3e:00:00:01", "02:16:3e:00:00:02"}
\* Addresses a caller may ask to release: those of the subnet.
Releasable == {NetAt(network, idx) : idx \in 0 .. (NetLen(network) - 1)}

\* BaseNetwork.allocate_ip(user_id, project_id, mac).
AllocateIp(mac) ==
    /\ LET free == Available(network, hosts)
       IN  IF free # {}
           THEN LET address == NetAt(network, CHOOSE i \in free : \A j \in free : i <= j)
                    h1 == AddHost(hosts, address, mac)
                IN  /\ hosts' = h1
                    /\ backend' = DhcpExpress(Entered(backend), network, h1)
                    /\ last' = [NoCall EXCEPT !.op = "allocate_ip", !.mac = mac,
                                              !.status = "ok", !.ret = address,
                                              !.added = DOMAIN h1 \ DOMAIN hosts]
           ELSE /\ last' = [NoCall EXCEPT !.op = "allocate_ip", !.mac = mac,
                                          !.status = "raise", !.exc = "NoMoreAddresses"]
                /\ backend' = Entered(backend)
                /\ UNCHANGED hosts
    /\ UNCHANGED <<network, vlanVars, alloc, pubVars, projVars>>

\* An allocate_vpn_ip that refuses a slot that is already leased.
AllocateVpnIpIfFree(mac) ==
    /\ LET address == NetAt(network, 2)
           h1 == AddHost(hosts, address, mac)
       IN  IF address \in DOMAIN hosts
           THEN /\ last' = [NoCall EXCEPT !.op = "allocate_vpn_ip", !.mac = mac,
                                          !.status = "raise", !.exc = "NoMoreAddresses"]
                /\ backend' = Entered(backend)
                /\ UNCHANGED hosts
           ELSE /\ hosts' = h1
                /\ backend' = DhcpExpress(Entered(backend), network, h1)
                /\ last' = [NoCall EXCEPT !.op = "allocate_vpn_ip", !.mac = mac,
                                          !.status = "ok", !.ret = address,
                                          !.added = DOMAIN h1 \ DOMAIN hosts]
    /\ UNCHANGED <<network, vlanVars, alloc, pubVars, projVars>>

\* DHCPNetwork.allocate_vpn_ip(user_id, project_id, mac).
AllocateVpnIp(mac) ==
    /\ LET address == NetAt(network, 2)
           h1 == AddHost(hosts, address, mac)
       IN  /\ hosts' = h1
           /\ backend' = DhcpExpress(Entered(backend), network, h1)
           /\ last' = [NoCall EXCEPT !.op = "allocate_vpn_ip", !.mac = mac,
                                     !.status = "ok", !.ret = address,
                                     !.added = DOMAIN h1 \ DOMAIN hosts]
    /\ UNCHANGED <<network, vlanVars, alloc, pubVars, projVars>>

\* A release_ip that removes the lease before it calls deexpress.
ReleaseIpRemovesFirst(ip_str) ==
    /\ IF ip_str \notin DOMAIN hosts
       THEN /\ last' = [NoCall EXCEPT !.op = "release_ip", !.address = ip_str,
                                      !.status = "raise", !.exc = "AddressNotAllocated"]
            /\ backend' = Entered(backend)
            /\ UNCHANGED hosts
       ELSE /\ hosts' = HDel(hosts, ip_str)
            /\ backend' = DhcpDeexpress(Entered(backend), network, hosts')
            /\ last' = [NoCall EXCEPT !.op = "release_ip", !.address = ip_str,
                                      !.status = "ok"]
    /\ UNCHANGED <<network, vlanVars, alloc, pubVars, projVars>>

\* BaseNetwork.release_ip(ip_str) on a DHCPNetwork.
ReleaseIp(ip_str) ==
    /\ IF ip_str \notin Assigned(hosts)
       THEN /\ last' = [NoCall EXCEPT !.op = "release_ip", !.address = ip_str,
                                      !.status = "raise", !.exc = "AddressNotAllocated"]
            /\ backend' = Entered(backend)
            /\ UNCHANGED hosts
       ELSE /\ backend' = DhcpDeexpress(Entered(backend), network, hosts)
            /\ hosts' = RemHost(hosts, ip_str)
            /\ last' = [NoCall EXCEPT !.op = "release_ip", !.address = ip_str,
                                      !.status = "ok"]
    /\ UNCHANGED <<network, vlanVars, alloc, pubVars, projVars>>

\* ------------------------------------ express called directly, and failing
\* net.express() called on the network object outside an allocation.
Express ==
    /\ backend' = DhcpExpress(Entered(backend), network, hosts)
    /\ last' = [NoCall EXCEPT !.op = "express", !.status = "ok"]
    /\ UNCHANGED <<network, hosts, vlanVars, alloc, pubVars, projVars>>

\* The backend calls DHCPNetwork.express makes, in order.
ExpressCalls(h) ==
    <<"vlan_create", "bridge_create">>
        \o (IF Cardinality(Assigned(h)) > 0 THEN <<"start_dnsmasq">> ELSE << >>)
        \o <<"confirm_rule FORWARD", "confirm_rule PREROUTING">>

\* One of those calls, made.
BackendCall(b, net, h, c) ==
    CASE c = "vlan_create" -> VlanCreate(b, net)
      [] c = "bridge_create" -> BridgeCreate(b, net)
      [] c = "start_dnsmasq" -> StartDnsmasq(b, net, h)
      [] c = "confirm_rule FORWARD" ->
            ConfirmRule(b, Rule("FORWARD", NetAt(net, 2), "udp", 1194, "ACCEPT"))
      [] c = "confirm_rule PREROUTING" ->
            ConfirmRule(b, Rule("PREROUTING", <<net.project_id, "vpn_ip">>, "udp",
                                <<net.project_id, "vpn_port">>, NetAt(net, 2)))

\* DHCPNetwork.express whose call c raises: the calls before it have been
\* made, c and those after it have not.
RECURSIVE ExpressUntil(_, _, _, _, _)
ExpressUntil(b, net, h, calls, c) ==
    IF calls = << >> \/ Head(calls) = c
    THEN b
    ELSE ExpressUntil(BackendCall(b, net, h, Head(calls)), net, h, Tail(calls), c)
DhcpExpressFailing(b, net, h, c) == ExpressUntil(b, net, h, ExpressCalls(h), c)

\* BaseNetwork.allocate_ip when backend call c of express raises: the
\* exception leaves allocate_ip, which has no handler around express.
AllocateIpBackendFails(mac, c) ==
    /\ Available(network, hosts) # {}
    /\ LET free == Available(network, hosts)
           address == NetAt(network, CHOOSE i \in free : \A j \in free : i <= j)
           h1 == AddHost(hosts, address, mac)
       IN  /\ \E i \in 1 .. Len(ExpressCalls(h1)) : ExpressCalls(h1)[i] = c
           /\ hosts' = h1
           /\ backend' = DhcpExpressFailing(Entered(backend), network, h1, c)
           /\ last' = [NoCall EXCEPT !.op = "allocate_ip", !.mac = mac,
                                     !.address = address, !.status = "raise",
                                     !.exc = "BackendActivationFailed",
                                     !.added = DOMAIN h1 \ DOMAIN hosts]
    /\ UNCHANGED <<network, vlanVars, alloc, pubVars, projVars>>

\* -------------------------------- allocate_ip, one store access at a time
NotAllocating == [pc |-> "idle", mac |-> "", idx |-> NUM_STATIC_IPS,
                  address |-> NoAddress, status |-> "none", ret |-> NoAddress,
                  exc |-> ""]

\* A handler enters allocate_ip(user_id, project_id, mac); each handler of the
\* interleaved runs makes one call.
AllocCall(q, mac) ==
    /\ alloc[q].pc = "idle"
    /\ alloc' = [alloc EXCEPT ![q] = [NotAllocating EXCEPT !.pc = "scan", !.mac = mac]]
    /\ UNCHANGED <<network, hosts, backend, last, vlanVars, pubVars, projVars>>

\* Lines 223-226 and 238: the next candidate of self.available is tested
\* against self.hosts as read now; the walk ending raises NoMoreAddresses.
AllocScan(q) ==
    /\ alloc[q].pc = "scan"
    /\ LET a == alloc[q]
       IN  IF a.idx \notin AvailableRange(network)
           THEN alloc' = [alloc EXCEPT ![q].pc = "done", ![q].status = "raise",
                                       ![q].exc = "NoMoreAddresses"]
           ELSE IF NetAt(network, a.idx) \notin DOMAIN hosts
           THEN alloc' = [alloc EXCEPT ![q].pc = "add",
                                       ![q].address = NetAt(network, a.idx)]
           ELSE alloc' = [alloc EXCEPT ![q].idx = a.idx + 1]
    /\ UNCHANGED <<network, hosts, backend, last, vlanVars, pubVars, projVars>>

\* Line 235: self._add_host(user_id, project_id, address, mac).
AllocAdd(q) ==
    /\ alloc[q].pc = "add"
    /\ hosts' = AddHost(hosts, alloc[q].address, alloc[q].mac)
    /\ alloc' = [alloc EXCEPT ![q].pc = "express"]
    /\ UNCHANGED <<network, backend, last, vlanVars, pubVars, projVars>>

\* Lines 236-237: self.express(address=address); return address.
AllocExpress(q) ==
    /\ alloc[q].pc = "express"
    /\ backend' = DhcpExpress(Entered(backend), network, hosts)
    /\ alloc' = [alloc EXCEPT ![q].pc = "done", ![q].status = "ok",
                              ![q].ret = alloc[q].address]
    /\ UNCHANGED <<network, hosts, last, vlanVars, pubVars, projVars>>

\* ------------------------------------- linux_net calls of the public pool
\* linux_net.remove_rule(cmd): the rule is absent afterwards.
RemoveRule(b, rule) ==
    [b EXCEPT !.rules = @ \ {rule}, !.log = Append(@, "remove_rule")]
\* linux_net.bind_public_ip / unbind_public_ip(ip, FLAGS.public_interface).
BindPublicIp(b, ip) ==
    [b EXCEPT !.public_ips = @ \cup {ip}, !.log = Append(@, "bind_public_ip")]
UnbindPublicIp(b, ip) ==
    [b EXCEPT !.public_ips = @ \ {ip}, !.log = Append(@, "unbind_public_ip")]

\* ------------------------------------------------ datastore.BasicModel
\* A model object's state is a dict; the store keeps one hash per identifier.
NoRecords == [x \in {} |-> EmptyHash]
\* dict.get(key, default) and the None it defaults to.
None == <<"None">>
Get(state, key, default) == IF key \in DOMAIN state THEN state[key] ELSE default
\* BasicModel.__init__: the stored state, or default_state() when none is stored.
ModelLoad(recs, id, default_state) == IF id \in DOMAIN recs THEN recs[id] ELSE default_state
\* BasicModel.save(): one hset per key of the object's state.
ModelSave(recs, id, state) ==
    LET old == ModelLoad(recs, id, EmptyHash)
    IN  HSet(recs, id, [k \in (DOMAIN old) \cup (DOMAIN state) |->
                            IF k \in DOMAIN state THEN state[k] ELSE old[k]])
\* BasicModel.destroy(): the stored hash is deleted.
ModelDestroy(recs, id) == HDel(recs, id)

\* ------------------------------------------------- class PublicAddress
\* The text 'available' where a private address or an instance id would stand.
Unbound == <<"available">>
DefaultState(address) == [k \in {"address"} |-> address]
PublicAddress(recs, address) == ModelLoad(recs, address, DefaultState(address))
\* A create that sets the owner and leaves the binding fields as loaded.
PublicAddressCreateOwnerOnly(recs, user_id, project_id, address) ==
    LET addr == PublicAddress(recs, address)
    IN  ModelSave(recs, address, HSet(HSet(addr, "user_id", user_id),
                                      "project_id", project_id))

\* PublicAddress.create(user_id, project_id, address).
PublicAddressCreate(recs, user_id, project_id, address) ==
    LET addr == PublicAddress(recs, address)
        a1 == HSet(addr, "user_id", user_id)
        a2 == HSet(a1, "project_id", project_id)
        a3 == HSet(a2, "instance_id", "available")
        a4 == HSet(a3, "private_ip", Unbound)
    IN  ModelSave(recs, address, a4)

\* ---------------------------------------- class PublicNetworkController
DEFAULT_PORTS == <<<<"tcp", 80>>, <<"tcp", 22>>, <<"udp", 1194>>, <<"tcp", 443>>>>

\* __init__: network_id "public:default" over FLAGS.public_range.
PublicNetwork ==
    [network_id |-> <<"public", "default">>,
     network_str |-> [first |-> Dotted(public_range),
                      last |-> Dotted(public_range + public_size - 1)],
     user_id |-> "public", project_id |-> "public",
     vlan |-> public_vlan, bridge_name |-> <<"br", public_vlan>>]

\* A candidate range that keeps back only the network and broadcast addresses.
PubAvailableRangeFromOne == 1 .. (NetLen(PublicNetwork) - 1 - 1)

\* available: for idx in range(2, len(self.network)-1), those not in hosts.
PubAvailableRange == 2 .. (NetLen(PublicNetwork) - 1 - 1)
PubAvailable(h) ==
    {idx \in PubAvailableRange : NetAt(PublicNetwork, idx) \notin DOMAIN h}

\* get_host(host): the record of a leased address, None otherwise.
GetHost(h, recs, host) ==
    IF host \in Assigned(h) THEN PublicAddress(recs, host) ELSE None

\* _add_host(user_id, project_id, host, _target): the hosts hash holds the
\* project, and the address record is created.
PubAddHost(h, project_id, host) == HSet(h, host, project_id)
\* _rem_host(host): the record is destroyed, the hash field deleted.
PubRemHost(h, host) == HDel(h, host)

\* The rules express confirms and deexpress removes for one binding, in the
\* code's order: DNAT, SNAT (its d is the source), icmp, then DEFAULT_PORTS.
PublicRules(public_ip, private_ip) ==
    <<Rule("PREROUTING", public_ip, "", 0, private_ip),
      Rule("POSTROUTING", private_ip, "", 0, public_ip),
      Rule("FORWARD", private_ip, "icmp", 0, "ACCEPT")>>
    \o [i \in 1 .. Len(DEFAULT_PORTS) |->
            Rule("FORWARD", private_ip, DEFAULT_PORTS[i][1], DEFAULT_PORTS[i][2], "ACCEPT")]

RECURSIVE ConfirmAll(_, _)
ConfirmAll(b, rules) ==
    IF rules = << >> THEN b ELSE ConfirmAll(ConfirmRule(b, Head(rules)), Tail(rules))
RECURSIVE RemoveAll(_, _)
RemoveAll(b, rules) ==
    IF rules = << >> THEN b ELSE RemoveAll(RemoveRule(b, Head(rules)), Tail(rules))

\* express(address=address) with addresses = [self.get_host(address)].
PublicExpress(b, addr) ==
    IF Get(addr, "private_ip", Unbound) = Unbound
    THEN b
    ELSE ConfirmAll(BindPublicIp(b, addr["address"]),
                    PublicRules(addr["address"], addr["private_ip"]))

\* A deexpress that unbinds the address and leaves its rules in place.
PublicDeexpressUnbindOnly(b, address, addr) == UnbindPublicIp(b, address)

\* deexpress(address=address) on the record get_host returned.
PublicDeexpress(b, address, addr) ==
    RemoveAll(UnbindPublicIp(b, address), PublicRules(address, addr["private_ip"]))

\* associate_address, line 426 / disassociate_address, line 441: the lease test.
PubLeasedAlways(h, public_ip) == TRUE
PubLeased(h, public_ip) == public_ip \in Assigned(h)
\* Lines 429-431: some leased address's record holds this private_ip.
HostBoundNever(h, recs, private_ip) == FALSE
HostBound(h, recs, private_ip) ==
    \E a \in Assigned(h) : Get(PublicAddress(recs, a), "private_ip", None) = private_ip
\* Line 433: the address's own record is bound.
AlreadyBoundNever(addr) == FALSE
AlreadyBound(addr) == Get(addr, "private_ip", Unbound) # Unbound
\* Line 444: the address's own record is not bound.
NotBoundNever(addr) == FALSE
NotBound(addr) == Get(addr, "private_ip", Unbound) = Unbound
\* Lines 435-436 and 447-448: the object's fields as set before save().
Bind(addr, private_ip, instance_id) ==
    HSet(HSet(addr, "private_ip", private_ip), "instance_id", instance_id)
Unbind(addr) == HSet(HSet(addr, "private_ip", Unbound), "instance_id", "available")

\* before: the backend's rules and bound addresses as associate_address found
\* them on entry.  reissued: allocate_ip returned the address that the call
\* before it had released while the address was bound.
NoPubCall == [op |-> "", public_ip |-> NoAddress, private_ip |-> NoAddress,
              instance_id |-> "", status |-> "none", exc |-> "", ret |-> NoAddress,
              before |-> [rules |-> {}, public_ips |-> {}], reissued |-> FALSE]
PubRaise(c, exc) == [c EXCEPT !.status = "raise", !.exc = exc]
PubOk(c) == [c EXCEPT !.status = "ok"]

\* Inputs of the public calls.
PubProjects == {"A", "B"}
PubUsers == {"A-manager"}
PubAddresses == {NetAt(PublicNetwork, idx) : idx \in 0 .. (NetLen(PublicNetwork) - 1)}
PrivateIps == {Dotted(private_range + 3), Dotted(private_range + 4)}
InstanceIds == {"i-1", "i-2"}

\* No interleaved call is under way.
Quiet == \A q \in Procs : assoc[q].pc = "idle"

\* PublicNetworkController.allocate_ip(user_id, project_id, mac), inherited:
\* first available address, _add_host, express(address=address).
PubAllocateIp(user_id, project_id) ==
    /\ Quiet
    /\ LET free == PubAvailable(pubHosts)
           c == [NoPubCall EXCEPT !.op = "allocate_ip"]
       IN  IF free = {}
           THEN /\ plast' = PubRaise(c, "NoMoreAddresses")
                /\ backend' = Entered(backend)
                /\ UNCHANGED <<pubHosts, records>>
           ELSE LET idx == CHOOSE i \in free : \A j \in free : i <= j
                    address == NetAt(PublicNetwork, idx)
                IN  /\ pubHosts' = PubAddHost(pubHosts, project_id, address)
                    /\ records' = PublicAddressCreate(records, user_id, project_id, address)
                    /\ backend' = PublicExpress(Entered(backend),
                                                GetHost(pubHosts', records', address))
                    /\ plast' = [PubOk(c) EXCEPT
                           !.public_ip = address, !.ret = address,
                           !.reissued = /\ plast.op = "deallocate_ip"
                                        /\ plast.status = "ok"
                                        /\ plast.public_ip = address
                                        /\ plast.private_ip # Unbound]
    /\ UNCHANGED <<network, hosts, last, alloc, assoc, vlanVars, projVars>>

\* allocate_ip on the public pool given up by its caller after step `done`:
\* "scan" (an address is chosen, nothing written), "hset" (line 414, the
\* lease is in the hosts hash) or "create" (line 415, the record is saved).
AbortPoints == {"scan", "hset", "create"}
PubAllocateIpAborted(user_id, project_id, done) ==
    /\ Quiet
    /\ PubAvailable(pubHosts) # {}
    /\ LET free == PubAvailable(pubHosts)
           address == NetAt(PublicNetwork, CHOOSE i \in free : \A j \in free : i <= j)
       IN  /\ pubHosts' = IF done \in {"hset", "create"}
                          THEN PubAddHost(pubHosts, project_id, address)
                          ELSE pubHosts
           /\ records' = IF done = "create"
                         THEN PublicAddressCreate(records, user_id, project_id, address)
                         ELSE records
           /\ backend' = Entered(backend)
           /\ plast' = [NoPubCall EXCEPT !.op = "allocate_ip", !.public_ip = address,
                                         !.status = "abort", !.exc = done]
    /\ UNCHANGED <<network, hosts, last, alloc, assoc, vlanVars, projVars>>

\* deallocate_ip(ip_str) = release_ip(ip_str): deexpress, then _rem_host.
PubDeallocateIp(ip_str) ==
    /\ Quiet
    /\ LET c == [NoPubCall EXCEPT !.op = "deallocate_ip", !.public_ip = ip_str]
       IN  IF ip_str \notin Assigned(pubHosts)
           THEN /\ plast' = PubRaise(c, "AddressNotAllocated")
                /\ backend' = Entered(backend)
                /\ UNCHANGED <<pubHosts, records>>
           ELSE IF "private_ip" \notin DOMAIN GetHost(pubHosts, records, ip_str)
           THEN /\ plast' = PubRaise(c, "KeyError")   \* addr['private_ip'] in deexpress
                /\ backend' = Entered(backend)
                /\ UNCHANGED <<pubHosts, records>>
           ELSE /\ backend' = PublicDeexpress(Entered(backend), ip_str,
                                              GetHost(pubHosts, records, ip_str))
                /\ records' = ModelDestroy(records, ip_str)
                /\ pubHosts' = PubRemHost(pubHosts, ip_str)
                /\ plast' = [PubOk(c) EXCEPT !.private_ip =
                                 GetHost(pubHosts, records, ip_str)["private_ip"]]
    /\ UNCHANGED <<network, hosts, last, alloc, assoc, vlanVars, projVars>>

\* associate_address(public_ip, private_ip, instance_id).
AssociateAddress(public_ip, private_ip, instance_id) ==
    /\ Quiet
    /\ LET c == [NoPubCall EXCEPT !.op = "associate_address", !.public_ip = public_ip,
                                  !.private_ip = private_ip, !.instance_id = instance_id,
                                  !.before = [rules |-> backend.rules,
                                              public_ips |-> backend.public_ips]]
           failed(exc) == /\ plast' = PubRaise(c, exc)
                          /\ backend' = Entered(backend)
                          /\ UNCHANGED <<pubHosts, records>>
       IN  IF ~PubLeased(pubHosts, public_ip)
           THEN failed("AddressNotAllocated")
           ELSE IF HostBound(pubHosts, records, private_ip)
           THEN failed("AddressAlreadyAssociated")
           ELSE IF public_ip \notin Assigned(pubHosts)   \* get_host returned None
           THEN failed("AttributeError")
           ELSE LET addr == GetHost(pubHosts, records, public_ip)
                IN  IF AlreadyBound(addr)
                    THEN failed("AddressAlreadyAssociated")
                    ELSE /\ records' = ModelSave(records, public_ip,
                                            Bind(addr, private_ip, instance_id))
                         /\ backend' = PublicExpress(Entered(backend),
                                            GetHost(pubHosts, records', public_ip))
                         /\ plast' = PubOk(c)
                         /\ UNCHANGED pubHosts
    /\ UNCHANGED <<network, hosts, last, alloc, assoc, vlanVars, projVars>>

\* disassociate_address(public_ip).
DisassociateAddress(public_ip) ==
    /\ Quiet
    /\ LET c == [NoPubCall EXCEPT !.op = "disassociate_address", !.public_ip = public_ip]
           failed(exc) == /\ plast' = PubRaise(c, exc)
                          /\ backend' = Entered(backend)
                          /\ UNCHANGED <<pubHosts, records>>
       IN  IF ~PubLeased(pubHosts, public_ip)
           THEN failed("AddressNotAllocated")
           ELSE IF public_ip \notin Assigned(pubHosts)   \* get_host returned None
           THEN failed("AttributeError")
           ELSE LET addr == GetHost(pubHosts, records, public_ip)
                IN  IF NotBound(addr)
                    THEN failed("AddressNotAssociated")
                    ELSE /\ backend' = PublicDeexpress(Entered(backend), public_ip, addr)
                         /\ records' = ModelSave(records, public_ip, Unbind(addr))
                         /\ plast' = PubOk(c)
                         /\ UNCHANGED pubHosts
    /\ UNCHANGED <<network, hosts, last, alloc, assoc, vlanVars, projVars>>

\* ------------------------------- PublicNetworkController.__init__, restart
\* An express that confirms nothing.
PublicExpressAllNone(b, h, recs, todo) == b

\* express() with address=None: addresses = self.host_objs, the records of
\* self.assigned; the unbound ones are skipped.
RECURSIVE PublicExpressAll(_, _, _, _)
PublicExpressAll(b, h, recs, todo) ==
    IF todo = {} THEN b
    ELSE LET a == CHOOSE x \in todo : \A y \in todo : Undot(x) <= Undot(y)
         IN  PublicExpressAll(PublicExpress(b, PublicAddress(recs, a)), h, recs,
                              todo \ {a})

\* PublicNetworkController(): the network fields are set and saved, then
\* self.express() (line 394).  The pool's leases and records are not touched.
PubConstruct ==
    /\ Quiet
    /\ backend' = PublicExpressAll(Entered(backend), pubHosts, records,
                                   Assigned(pubHosts))
    /\ plast' = [PubOk(NoPubCall) EXCEPT
                    !.op = "__init__",
                    !.before = [rules |-> backend.rules,
                                public_ips |-> backend.public_ips]]
    /\ UNCHANGED <<pubHosts, records>>
    /\ UNCHANGED <<network, hosts, last, alloc, assoc, vlanVars, projVars>>

\* The host restarts: rules, bound addresses and the other live networking
\* state are gone, the store is as it was.
BackendRestart ==
    /\ Quiet
    /\ backend # NoBackend
    /\ backend' = NoBackend
    /\ plast' = [PubOk(NoPubCall) EXCEPT !.op = "restart"]
    /\ UNCHANGED <<pubHosts, records>>
    /\ UNCHANGED <<network, hosts, last, alloc, assoc, vlanVars, projVars>>

\* ---------------------------- associate_address, one store access at a time
NotAssociating == [pc |-> "idle", public_ip |-> NoAddress, private_ip |-> NoAddress,
                   instance_id |-> "", todo |-> {}, addr |-> EmptyHash,
                   status |-> "none", exc |-> ""]
AssocRaise(q, exc) ==
    assoc' = [assoc EXCEPT ![q].pc = "done", ![q].status = "raise", ![q].exc = exc]

\* A handler enters associate_address; each handler of the interleaved runs
\* makes one call, for an address of the allocatable range.
AssocCall(q, public_ip, private_ip, instance_id) ==
    /\ assoc[q].pc = "idle"
    /\ assoc' = [assoc EXCEPT ![q] = [NotAssociating EXCEPT
                     !.pc = "check", !.public_ip = public_ip,
                     !.private_ip = private_ip, !.instance_id = instance_id]]
    /\ UNCHANGED <<pubHosts, records, plast, network, hosts, backend, last, alloc, vlanVars, projVars>>

\* Lines 426-429: the lease test, then host_objs reads self.assigned.
AssocCheck(q) ==
    /\ assoc[q].pc = "check"
    /\ IF ~PubLeased(pubHosts, assoc[q].public_ip)
       THEN AssocRaise(q, "AddressNotAllocated")
       ELSE assoc' = [assoc EXCEPT ![q].pc = "scan", ![q].todo = Assigned(pubHosts)]
    /\ UNCHANGED <<pubHosts, records, plast, network, hosts, backend, last, alloc, vlanVars, projVars>>

\* Lines 429-431: host_objs loads the next record and the loop tests it.
AssocScan(q) ==
    /\ assoc[q].pc = "scan"
    /\ IF assoc[q].todo = {}
       THEN assoc' = [assoc EXCEPT ![q].pc = "get"]
       ELSE \E a \in assoc[q].todo :
                IF HostBound([x \in {a} |-> ""], records, assoc[q].private_ip)
                THEN AssocRaise(q, "AddressAlreadyAssociated")
                ELSE assoc' = [assoc EXCEPT ![q].todo = @ \ {a}]
    /\ UNCHANGED <<pubHosts, records, plast, network, hosts, backend, last, alloc, vlanVars, projVars>>

\* Lines 432-436: get_host loads the record; the bound test; the fields are set.
AssocGet(q) ==
    /\ assoc[q].pc = "get"
    /\ IF assoc[q].public_ip \notin Assigned(pubHosts)   \* get_host returned None
       THEN AssocRaise(q, "AttributeError")
       ELSE LET addr == GetHost(pubHosts, records, assoc[q].public_ip)
            IN  IF AlreadyBound(addr)
                THEN AssocRaise(q, "AddressAlreadyAssociated")
                ELSE assoc' = [assoc EXCEPT ![q].pc = "save",
                                   ![q].addr = Bind(addr, assoc[q].private_ip,
                                                    assoc[q].instance_id)]
    /\ UNCHANGED <<pubHosts, records, plast, network, hosts, backend, last, alloc, vlanVars, projVars>>

\* Line 437: addr.save().
AssocSave(q) ==
    /\ assoc[q].pc = "save"
    /\ records' = ModelSave(records, assoc[q].public_ip, assoc[q].addr)
    /\ assoc' = [assoc EXCEPT ![q].pc = "express"]
    /\ UNCHANGED <<pubHosts, plast, network, hosts, backend, last, alloc, vlanVars, projVars>>

\* Line 438: self.express(address=public_ip).
AssocExpress(q) ==
    /\ assoc[q].pc = "express"
    /\ backend' = IF assoc[q].public_ip \in Assigned(pubHosts)
                  THEN PublicExpress(Entered(backend),
                                     GetHost(pubHosts, records, assoc[q].public_ip))
                  ELSE Entered(backend)
    /\ assoc' = [assoc EXCEPT ![q].pc = "done", ![q].status = "ok"]
    /\ UNCHANGED <<pubHosts, records, plast, network, hosts, last, alloc, vlanVars, projVars>>

\* ------------------- allocate_ip on the public pool, one store access at a time
\* The tenant and user the interleaved allocation is made for.
RaceProject == "A"
RaceUser == "A-manager"

\* A handler enters allocate_ip(user_id, project_id, mac) of the public pool.
PubAllocCall(q) ==
    /\ alloc[q].pc = "idle"
    /\ assoc[q].pc = "idle"
    /\ alloc' = [alloc EXCEPT ![q] = [NotAllocating EXCEPT !.pc = "scan"]]
    /\ UNCHANGED <<network, hosts, backend, last, vlanVars, pubVars, projVars>>

\* Lines 233 and 398-401: the first address of self.available, read from the
\* hosts hash as it is now; none raises NoMoreAddresses.
PubAllocScan(q) ==
    /\ alloc[q].pc = "scan"
    /\ LET free == PubAvailable(pubHosts)
       IN  IF free = {}
           THEN alloc' = [alloc EXCEPT ![q].pc = "done", ![q].status = "raise",
                                       ![q].exc = "NoMoreAddresses"]
           ELSE alloc' = [alloc EXCEPT ![q].pc = "add",
                              ![q].address = NetAt(PublicNetwork,
                                                   CHOOSE i \in free : \A j \in free : i <= j)]
    /\ UNCHANGED <<network, hosts, backend, last, vlanVars, pubVars, projVars>>

\* Line 414: the hset of _add_host; the address is leased from here on.
PubAllocAdd(q) ==
    /\ alloc[q].pc = "add"
    /\ pubHosts' = PubAddHost(pubHosts, RaceProject, alloc[q].address)
    /\ alloc' = [alloc EXCEPT ![q].pc = "create"]
    /\ UNCHANGED <<network, hosts, backend, last, vlanVars, records, assoc, plast, projVars>>

\* Line 415: PublicAddress.create(user_id, project_id, host) loads the record,
\* sets its four fields and saves it.
PubAllocCreate(q) ==
    /\ alloc[q].pc = "create"
    /\ records' = PublicAddressCreate(records, RaceUser, RaceProject, alloc[q].address)
    /\ alloc' = [alloc EXCEPT ![q].pc = "express"]
    /\ UNCHANGED <<network, hosts, backend, last, vlanVars, pubHosts, assoc, plast, projVars>>

\* Lines 236-237: self.express(address=address); return address.
PubAllocExpress(q) ==
    /\ alloc[q].pc = "express"
    /\ backend' = IF alloc[q].address \in Assigned(pubHosts)
                  THEN PublicExpress(Entered(backend),
                                     GetHost(pubHosts, records, alloc[q].address))
                  ELSE Entered(backend)
    /\ alloc' = [alloc EXCEPT ![q].pc = "done", ![q].status = "ok",
                              ![q].ret = alloc[q].address]
    /\ UNCHANGED <<network, hosts, last, vlanVars, pubVars, projVars>>

\* ------------------------------------------------- get_project_network
\* BaseNetwork._hosts_key: "network:%s:hosts" % self['network_str'].
HostsKey(net) == net.network_str
\* BaseNetwork.hosts: hgetall(self._hosts_key) or {}.
HostsAt(hb, net) == IF HostsKey(net) \in DOMAIN hb THEN hb[HostsKey(net)] ELSE EmptyHash

\* BaseNetwork.create: cls(network_id, network_str) loads the stored state,
\* default_state() (which carries network_str) only when none is stored; then
\* user_id, project_id, vlan and bridge_name are set and saved.
NetworkCreateStored(ns, user_id, project_id, security_group, vlan_id) ==
    LET made == NetworkCreate(user_id, project_id, security_group, vlan_id)
    IN  IF made.network_id \in DOMAIN ns
        THEN [made EXCEPT !.network_str = ns[made.network_id].network_str]
        ELSE made

\* project.project_manager_id of AuthManager's project.
ManagerOf(project_id) == <<project_id, "manager">>

\* Tenants whose networks are asked for: two when no project is created
\* again, three when projects are.  The tenant whose leases are followed.
NetProjects == {"A", "B", "C"}
CallProjects == {"A", "B"}
LeaseProject == "A"

NoNetCall == [op |-> "", project_id |-> "", status |-> "none", exc |-> "",
              consumed |-> FALSE, ret |-> NoAddress]
\* get_network_by_address under way: the address looked for, the projects of
\* get_projects() not yet visited and those visited, and the VLAN table and the
\* network records as they were when it was entered.
NoWalk == [pc |-> "idle", address |-> NoAddress, todo |-> {}, visited |-> {},
           vlans0 |-> EmptyHash, nets0 |-> [x \in {} |-> NoNetwork]]
NoProjectHistory ==
    [first |-> [p \in NetProjects |-> NoNetwork], calls |-> [p \in NetProjects |-> 0],
     leased |-> {}, last |-> NoNetCall, walk |-> NoWalk]

\* get_project_network(project_id), lines 526-528: the project is unknown.
GetProjectNetworkNotFound(project_id) ==
    /\ \A q \in Procs : call[q].pc = "idle"
    /\ ~GetProject(project_id)
    /\ pnet' = [pnet EXCEPT !.last = [NoNetCall EXCEPT
                   !.op = "get_project_network", !.project_id = project_id,
                   !.status = "raise", !.exc = "NotFound"]]
    /\ backend' = Entered(backend)
    /\ UNCHANGED <<vlanVars, network, hosts, last, alloc, pubVars, nets, hostsBy, auth>>

\* get_project_network that enters get_vlan_for_project without asking
\* whether the project exists.
GetProjectNetworkCallUnchecked(q, project_id) ==
    /\ \A o \in Procs : call[o].pc = "idle"
    /\ Call(q, project_id)

\* get_project_network(project_id), lines 526 and 529-532, then line 284: the
\* project exists and get_vlan_for_project(project_id) is entered.
GetProjectNetworkCall(q, project_id) ==
    /\ \A o \in Procs : call[o].pc = "idle"
    /\ GetProject(project_id)
    /\ Call(q, project_id)

\* Lines 285-287: the call of get_vlan_for_project is over; network_str =
\* vlan.subnet() and cls.create(...) build and save the network, which
\* get_project_network returns.  No backend call is made.
GetProjectNetworkReturn(q) ==
    /\ call[q].pc = "done"
    /\ pnet.walk.pc = "idle"
    /\ LET project_id == call[q].project_id
           r == call[q].ret
           c == [NoNetCall EXCEPT !.op = "get_project_network",
                                  !.project_id = project_id]
       IN  IF r.status = "raise"
           THEN /\ pnet' = [pnet EXCEPT !.last = [c EXCEPT !.status = "raise",
                                                           !.exc = r.exc]]
                /\ UNCHANGED <<nets, network>>
           ELSE LET net == NetworkCreateStored(nets, ManagerOf(project_id), project_id,
                                               "default", r.vlan.vlan_id)
                IN  /\ nets' = HSet(nets, net.network_id, net)
                    /\ network' = net
                    /\ pnet' = [pnet EXCEPT
                          !.first[project_id] = IF pnet.calls[project_id] = 0
                                                THEN net ELSE @,
                          !.calls[project_id] = IF @ < 2 THEN @ + 1 ELSE @,
                          !.last = [c EXCEPT !.status = "ok",
                                             !.consumed = vlans # call[q].startTbl]]
    /\ call' = [call EXCEPT ![q] = Idle]
    /\ backend' = Entered(backend)
    /\ UNCHANGED <<projects, vlans, callers, firstRet, between,
                   hosts, last, alloc, pubVars, hostsBy, auth>>

\* allocate_ip(user_id, project_id, mac) on the network object that the first
\* get_project_network(LeaseProject) returned.
ProjAllocateIp(mac) ==
    /\ \A q \in Procs : call[q].pc = "idle"
    /\ pnet.first[LeaseProject] # NoNetwork
    /\ LET net == pnet.first[LeaseProject]
           h == HostsAt(hostsBy, net)
           free == Available(net, h)
           c == [NoNetCall EXCEPT !.op = "allocate_ip", !.project_id = LeaseProject]
       IN  IF free = {}
           THEN /\ pnet' = [pnet EXCEPT !.last = [c EXCEPT !.status = "raise",
                                                           !.exc = "NoMoreAddresses"]]
                /\ backend' = Entered(backend)
                /\ UNCHANGED hostsBy
           ELSE LET address == NetAt(net, CHOOSE i \in free : \A j \in free : i <= j)
                    h1 == AddHost(h, address, mac)
                IN  /\ hostsBy' = HSet(hostsBy, HostsKey(net), h1)
                    /\ backend' = DhcpExpress(Entered(backend), net, h1)
                    /\ pnet' = [pnet EXCEPT !.leased = @ \cup {address},
                                            !.last = [c EXCEPT !.status = "ok"]]
    /\ UNCHANGED <<vlanVars, network, hosts, last, alloc, pubVars, nets, auth>>

\* allocate_ip(user_id, project_id, mac) on the network object that the latest
\* get_project_network returned, for a tenant other than LeaseProject.
ProjAllocateIpLatest(mac) ==
    /\ \A q \in Procs : call[q].pc = "idle"
    /\ network # NoNetwork
    /\ network.project_id # LeaseProject
    /\ LET net == network
           h == HostsAt(hostsBy, net)
           free == Available(net, h)
           c == [NoNetCall EXCEPT !.op = "allocate_ip", !.project_id = net.project_id]
       IN  IF free = {}
           THEN /\ pnet' = [pnet EXCEPT !.last = [c EXCEPT !.status = "raise",
                                                           !.exc = "NoMoreAddresses"]]
                /\ backend' = Entered(backend)
                /\ UNCHANGED hostsBy
           ELSE LET address == NetAt(net, CHOOSE i \in free : \A j \in free : i <= j)
                    h1 == AddHost(h, address, mac)
                IN  /\ hostsBy' = HSet(hostsBy, HostsKey(net), h1)
                    /\ backend' = DhcpExpress(Entered(backend), net, h1)
                    /\ pnet' = [pnet EXCEPT !.last = [c EXCEPT !.status = "ok",
                                                               !.ret = address]]
    /\ UNCHANGED <<vlanVars, network, hosts, last, alloc, pubVars, nets, auth>>

\* -------------------------------------------------- get_network_by_address
\* get_project_network(project.id) entered from the loop of line 540: the
\* project exists, and get_vlan_for_project starts as in Call.
Started(q, project_id) ==
    [call EXCEPT ![q] = [Idle EXCEPT !.pc = "lookup", !.project_id = project_id,
                                     !.fresh = project_id \notin DOMAIN vlans,
                                     !.startTbl = vlans, !.startProjects = projects]]

\* A call that reports success whatever its outcome.
ByAddressDoneOk(q, c) ==
    /\ pnet' = [pnet EXCEPT !.walk = NoWalk,
                            !.last = [c EXCEPT !.op = "get_network_by_address",
                                               !.status = "ok"]]
    /\ call' = [call EXCEPT ![q] = Idle]

\* The call is over: its outcome is kept and the handler is idle again.
ByAddressDone(q, c) ==
    /\ pnet' = [pnet EXCEPT !.walk = NoWalk,
                            !.last = [c EXCEPT !.op = "get_network_by_address"]]
    /\ call' = [call EXCEPT ![q] = Idle]

\* The handler that serves the calls of NextByAddress.
WalkHandler == 1

\* The address asked for: the first one a tenant network leases.
ByAddresses == {Dotted(private_range + 3)}

\* get_network_by_address(address), lines 539-541: get_projects() lists the
\* existing projects, in an order of its own; the first is visited.
ByAddressCall(q, address) ==
    /\ q \in callers
    /\ \A o \in Procs : call[o].pc = "idle"
    /\ pnet.walk.pc = "idle"
    /\ projects # {}
    /\ \E p \in projects :
          /\ call' = Started(q, p)
          /\ pnet' = [pnet EXCEPT !.walk = [pc |-> "walking", address |-> address,
                                            todo |-> projects \ {p}, visited |-> {p},
                                            vlans0 |-> vlans, nets0 |-> nets]]
    /\ backend' = Entered(backend)
    /\ UNCHANGED <<projects, vlans, callers, firstRet, between,
                   network, hosts, last, alloc, pubVars, nets, hostsBy, auth>>

\* Lines 541-545: get_project_network(project.id) is over for the project
\* visited.  An exception of it leaves get_network_by_address; otherwise the
\* network is built and saved, and returned if address is in net.assigned;
\* else the next project is visited, and the loop ending raises
\* AddressNotAllocated.
ByAddressReturn(q) ==
    /\ pnet.walk.pc = "walking"
    /\ call[q].pc = "done"
    /\ LET w == pnet.walk
           r == call[q].ret
           project_id == call[q].project_id
           net == NetworkCreateStored(nets, ManagerOf(project_id), project_id,
                                      "default", r.vlan.vlan_id)
       IN  IF r.status = "raise"
           THEN /\ ByAddressDone(q, [NoNetCall EXCEPT !.status = "raise", !.exc = r.exc])
                /\ UNCHANGED <<nets, network>>
           ELSE /\ nets' = HSet(nets, net.network_id, net)
                /\ IF w.address \in Assigned(HostsAt(hostsBy, net))
                   THEN /\ ByAddressDone(q, [NoNetCall EXCEPT !.status = "ok",
                                                 !.project_id = project_id,
                                                 !.ret = w.address])
                        /\ network' = net
                   ELSE IF w.todo = {}
                   THEN /\ ByAddressDone(q, [NoNetCall EXCEPT !.status = "raise",
                                                 !.exc = "AddressNotAllocated"])
                        /\ UNCHANGED network
                   ELSE /\ \E p \in w.todo :
                             /\ call' = Started(q, p)
                             /\ pnet' = [pnet EXCEPT !.walk.todo = @ \ {p},
                                                     !.walk.visited = @ \cup {p}]
                        /\ UNCHANGED network
    /\ backend' = Entered(backend)
    /\ UNCHANGED <<projects, vlans, callers, firstRet, between,
                   hosts, last, alloc, pubVars, hostsBy, auth>>

\* AuthManager deletes a project while no call is under way.
ProjDeleteProject(p) ==
    /\ \A q \in Procs : call[q].pc = "idle"
    /\ DeleteProject(p)

\* AuthManager creates a project under an id that is not in use, one that a
\* deleted project bore included.  The store is not touched.
ProjCreateProject(p) ==
    /\ \A q \in Procs : call[q].pc = "idle"
    /\ p \notin projects
    /\ projects' = projects \cup {p}
    /\ UNCHANGED <<vlans, callers, call, firstRet, between, netVars>>

\* Injective maps of the k lowest ids of the pool to projects: the tables that
\* calls made one after another leave behind (ids are handed out lowest first
\* and reclaiming only changes an id's owner).
RECURSIVE Tables(_)
Tables(k) ==
    IF k = 0 THEN {EmptyHash}
    ELSE UNION {{HSet(t, p, Str(vlan_start + k - 1)) : p \in ProjectIds \ DOMAIN t} :
                   t \in Tables(k - 1)}

SettledTables == UNION {Tables(k) : k \in 0 .. MaxVlans}

NoHistory ==
    /\ call = [q \in Procs |-> Idle]
    /\ firstRet = [p \in ProjectIds |-> 0]
    /\ between = [p \in ProjectIds |-> FALSE]

\* No tenant network has been made and the backend holds nothing.
\* No public address is leased; the backend is as NoBackend leaves it.
NoPublic ==
    /\ pubHosts = EmptyHash
    /\ records = NoRecords
    /\ assoc = [q \in Procs |-> NotAssociating]
    /\ plast = NoPubCall

\* ------------------------------------------- api/openstack/auth.py: tokens
\* The clock counts half days: TicksPerDay of them make one day of
\* datetime.timedelta.days.  It runs up to MaxNow.
TicksPerDay == 2
MaxNow == 5

\* The age in days from which authorize_token removes a token (line 110).
TokenDays == 2

TokenHashes == {"t1", "t2"}
AuthUsers == {"u1"}

\* What authorize_token returns for no user.
NoUser == "None"

NoAuthCall == [op |-> "", token_hash |-> "", ret |-> NoUser, turn |-> FALSE]

\* tokens: token_hash -> [created_at, user_id]; issued and expired are
\* history: the hashes given out so far, and those presented at an age of
\* TokenDays or more.
NoTokens ==
    [tokens |-> [x \in {} |-> [created_at |-> 0, user_id |-> ""]],
     users |-> AuthUsers, now |-> 0, issued |-> {}, expired |-> {},
     last |-> NoAuthCall]

\* An age counted in days twice as long.
DeltaDaysLongDay(now, created_at) == (now - created_at) \div (2 * TicksPerDay)

\* (datetime.datetime.now() - token.created_at).days
DeltaDays(now, created_at) == (now - created_at) \div TicksPerDay

\* db.auth_get_token: the stored token, or nothing.
AuthGetToken(tokens, token_hash) ==
    IF token_hash \in DOMAIN tokens
    THEN [found |-> TRUE, token |-> tokens[token_hash]]
    ELSE [found |-> FALSE, token |-> [created_at |-> 0, user_id |-> ""]]

\* db.auth_destroy_token
AuthDestroyToken(tokens, token_hash) ==
    [x \in (DOMAIN tokens) \ {token_hash} |-> tokens[x]]

\* auth.get_user: the user, or nothing when it has been deleted.
AuthGetUser(users, user_id) == IF user_id \in users THEN user_id ELSE NoUser

\* Half a day passes.
AuthTick ==
    /\ auth.now < MaxNow
    /\ auth' = [auth EXCEPT !.now = @ + 1]
    /\ UNCHANGED <<vlanVars, network, hosts, backend, last, alloc, pubVars,
                   nets, hostsBy, pnet>>

\* _authorize_user, lines 116-137, for a user whose key matches: a token with
\* a hash not given out before is stored, created now.
AuthorizeUser(token_hash, user_id) ==
    /\ user_id \in auth.users
    /\ token_hash \notin auth.issued
    /\ auth' = [auth EXCEPT
                  !.tokens = [x \in (DOMAIN @) \cup {token_hash} |->
                                 IF x = token_hash
                                 THEN [created_at |-> auth.now, user_id |-> user_id]
                                 ELSE @[x]],
                  !.issued = @ \cup {token_hash},
                  !.last = [NoAuthCall EXCEPT !.op = "_authorize_user",
                                              !.token_hash = token_hash,
                                              !.ret = user_id,
                                              !.turn = auth.last.turn]]
    /\ UNCHANGED <<vlanVars, network, hosts, backend, last, alloc, pubVars,
                   nets, hostsBy, pnet>>

\* AuthManager deletes a user.
AuthDeleteUser(user_id) ==
    /\ user_id \in auth.users
    /\ auth' = [auth EXCEPT !.users = @ \ {user_id}]
    /\ UNCHANGED <<vlanVars, network, hosts, backend, last, alloc, pubVars,
                   nets, hostsBy, pnet>>

\* authorize_token(token_hash), lines 105-114.
AuthorizeToken(token_hash) ==
    /\ LET got == AuthGetToken(auth.tokens, token_hash)
           c == [NoAuthCall EXCEPT !.op = "authorize_token",
                                   !.token_hash = token_hash,
                                   !.turn = ~auth.last.turn]
       IN  IF got.found
           THEN IF DeltaDays(auth.now, got.token.created_at) >= TokenDays
                THEN auth' = [auth EXCEPT
                                !.tokens = AuthDestroyToken(@, token_hash),
                                !.expired = @ \cup {token_hash},
                                !.last = c]
                ELSE auth' = [auth EXCEPT
                                !.last = [c EXCEPT !.ret =
                                            AuthGetUser(auth.users, got.token.user_id)]]
           ELSE auth' = [auth EXCEPT !.last = c]
    /\ UNCHANGED <<vlanVars, network, hosts, backend, last, alloc, pubVars,
                   nets, hostsBy, pnet>>

\* get_project_network has not been called, and no token has been given out.
NoProjectNetworks ==
    /\ auth = NoTokens
    /\ nets = [x \in {} |-> NoNetwork]
    /\ hostsBy = [x \in {} |-> EmptyHash]
    /\ pnet = NoProjectHistory

NoNetworks ==
    /\ network = NoNetwork
    /\ hosts = EmptyHash
    /\ backend = NoBackend
    /\ last = NoCall
    /\ alloc = [q \in Procs |-> NotAllocating]
    /\ NoPublic
    /\ NoProjectNetworks

\* One handler at a time: calls and deletions follow one another.
Init ==
    /\ projects = ProjectIds
    /\ vlans = EmptyHash
    /\ callers = {1}
    /\ NoHistory
    /\ NoNetworks

\* Two handlers, one call each, whose store accesses interleave; they start
\* from any table and any set of live projects that Spec can leave behind.
InitRace ==
    /\ projects \in SUBSET ProjectIds
    /\ vlans \in SettledTables
    /\ callers = Procs
    /\ NoHistory
    /\ NoNetworks

\* The DHCP network of tenant "A" as get_project_network has just built it on
\* one of the pool's VLANs; no address is leased and nothing is expressed.
InitNet ==
    /\ projects = ProjectIds
    /\ \E n \in VlanRange :
          /\ vlans = HSet(EmptyHash, "A", Str(n))
          /\ network = NetworkCreate("A-manager", "A", "default", StrId(Str(n)))
    /\ callers = {}
    /\ NoHistory
    /\ hosts = EmptyHash
    /\ backend = NoBackend
    /\ last = NoCall
    /\ alloc = [q \in Procs |-> NotAllocating]
    /\ NoPublic
    /\ NoProjectNetworks

Steps ==
    \/ \E q \in Procs, p \in ProjectIds : Call(q, p)
    \/ \E q \in Procs : Lookup(q)
    \/ \E q \in Procs : Dict(q)
    \/ \E q \in Procs : Scan(q)
    \/ \E q \in Procs : Relookup(q)
    \/ \E q \in Procs : Destroy(q)
    \/ \E q \in Procs : Save(q)

Next ==
    \/ Steps
    \/ \E p \in ProjectIds : DeleteProject(p)

\* allocate_ip, allocate_vpn_ip and release_ip called one after another.
NextNet ==
    \/ \E mac \in Macs : AllocateIp(mac)
    \/ \E mac \in Macs : AllocateVpnIp(mac)
    \/ \E ip_str \in Releasable : ReleaseIp(ip_str)

\* The calls of NextNet, express called directly, and allocations whose
\* express fails at one of its backend calls.
BackendCalls == {"vlan_create", "bridge_create", "start_dnsmasq",
                 "confirm_rule FORWARD", "confirm_rule PREROUTING"}
NextNetBackend ==
    \/ NextNet
    \/ Express
    \/ \E mac \in Macs, c \in BackendCalls : AllocateIpBackendFails(mac, c)

\* Two handlers run allocate_ip on the same network, their store accesses
\* interleaved.
NextNetRace ==
    \/ \E q \in Procs, mac \in Macs : AllocCall(q, mac)
    \/ \E q \in Procs : AllocScan(q)
    \/ \E q \in Procs : AllocAdd(q)
    \/ \E q \in Procs : AllocExpress(q)

\* The public pool, one call at a time.
NextPublic ==
    \/ \E user_id \in PubUsers, project_id \in PubProjects :
            PubAllocateIp(user_id, project_id)
    \/ \E ip_str \in PubAddresses : PubDeallocateIp(ip_str)
    \/ \E public_ip \in PubAddresses, private_ip \in PrivateIps,
            instance_id \in InstanceIds :
            AssociateAddress(public_ip, private_ip, instance_id)
    \/ \E public_ip \in PubAddresses : DisassociateAddress(public_ip)

\* The public pool with allocations that their caller gives up part-way.
NextPublicAbort ==
    \/ NextPublic
    \/ \E user_id \in PubUsers, project_id \in PubProjects, done \in AbortPoints :
            PubAllocateIpAborted(user_id, project_id, done)

\* The public pool with host restarts and constructions of the controller.
NextPublicRestart ==
    \/ NextPublic
    \/ PubConstruct
    \/ BackendRestart

\* A tenant's DHCP network and the public pool side by side: express and
\* allocate_vpn_ip on the network, the public calls with private addresses of
\* that network, the vpn address at offset 2 among them.
CloudpipeIps == {NetAt(network, 2), NetAt(network, 3)}
NextCloudpipe ==
    \/ Express
    \/ \E mac \in Macs : AllocateVpnIp(mac)
    \/ \E user_id \in PubUsers : PubAllocateIp(user_id, "A")
    \/ \E ip_str \in PubAddresses : PubDeallocateIp(ip_str)
    \/ \E public_ip \in PubAddresses, private_ip \in CloudpipeIps :
            AssociateAddress(public_ip, private_ip, "i-1")
    \/ \E public_ip \in PubAddresses : DisassociateAddress(public_ip)

\* Two handlers run associate_address on a pool that calls made one at a time
\* have filled, their store accesses interleaved.
NextPublicRace ==
    \/ \E user_id \in PubUsers : PubAllocateIp(user_id, "A")
    \/ \E q \in Procs, idx \in PubAvailableRange, private_ip \in PrivateIps :
            AssocCall(q, NetAt(PublicNetwork, idx), private_ip, IF q = 1 THEN "i-1" ELSE "i-2")
    \/ \E q \in Procs : AssocCheck(q)
    \/ \E q \in Procs : AssocScan(q)
    \/ \E q \in Procs : AssocGet(q)
    \/ \E q \in Procs : AssocSave(q)
    \/ \E q \in Procs : AssocExpress(q)

\* Handler 1 runs allocate_ip on the public pool while handler 2 runs
\* associate_address, their store accesses interleaved; allocations made one
\* at a time come before.
NextPublicAllocRace ==
    \/ /\ \A q \in Procs : alloc[q].pc = "idle"
       /\ PubAllocateIp(RaceUser, RaceProject)
    \/ PubAllocCall(1)
    \/ PubAllocScan(1)
    \/ PubAllocAdd(1)
    \/ PubAllocCreate(1)
    \/ PubAllocExpress(1)
    \/ \E idx \in PubAvailableRange, private_ip \in PrivateIps :
            AssocCall(2, NetAt(PublicNetwork, idx), private_ip, "i-2")
    \/ AssocCheck(2)
    \/ AssocScan(2)
    \/ AssocGet(2)
    \/ AssocSave(2)
    \/ AssocExpress(2)

\* get_project_network, allocations on the network it returned and project
\* deletions, one call at a time.
NextProject ==
    \/ \E q \in Procs, p \in CallProjects : GetProjectNetworkCall(q, p)
    \/ \E p \in CallProjects : GetProjectNetworkNotFound(p)
    \/ \E q \in Procs : Lookup(q)
    \/ \E q \in Procs : Dict(q)
    \/ \E q \in Procs : Scan(q)
    \/ \E q \in Procs : Relookup(q)
    \/ \E q \in Procs : Destroy(q)
    \/ \E q \in Procs : Save(q)
    \/ \E q \in Procs : GetProjectNetworkReturn(q)
    \/ \E mac \in Macs : ProjAllocateIp(mac)
    \/ \E p \in CallProjects : ProjDeleteProject(p)

\* The calls of NextProject for three tenants, allocations on the network
\* returned last, and projects created again after a deletion; one consumer
\* target, and tenant "B" the one that is created again.
RecreateMacs == {"02:16:3e:00:00:01"}
Recreated == {"B"}
NextProjectRecreate ==
    \/ \E q \in Procs, p \in NetProjects : GetProjectNetworkCall(q, p)
    \/ \E p \in Recreated : GetProjectNetworkNotFound(p)
    \/ \E q \in Procs : Lookup(q)
    \/ \E q \in Procs : Dict(q)
    \/ \E q \in Procs : Scan(q)
    \/ \E q \in Procs : Relookup(q)
    \/ \E q \in Procs : Destroy(q)
    \/ \E q \in Procs : Save(q)
    \/ \E q \in Procs : GetProjectNetworkReturn(q)
    \/ \E mac \in RecreateMacs : ProjAllocateIp(mac)
    \/ \E mac \in RecreateMacs : ProjAllocateIpLatest(mac)
    \/ \E p \in CallProjects : ProjDeleteProject(p)
    \/ \E p \in Recreated : ProjCreateProject(p)

\* Tokens are given out, presented and grow old; a user may be deleted.
NextAuth ==
    \/ AuthTick
    \/ \E h \in TokenHashes, u \in AuthUsers : AuthorizeUser(h, u)
    \/ \E u \in AuthUsers : AuthDeleteUser(u)
    \/ \E h \in TokenHashes : AuthorizeToken(h)

\* The calls of NextProject and get_network_by_address, one call at a time.
NextByAddress ==
    \/ \E p \in CallProjects : GetProjectNetworkCall(WalkHandler, p)
    \/ Lookup(WalkHandler)
    \/ Dict(WalkHandler)
    \/ Scan(WalkHandler)
    \/ Relookup(WalkHandler)
    \/ Destroy(WalkHandler)
    \/ Save(WalkHandler)
    \/ GetProjectNetworkReturn(WalkHandler)
    \/ \E mac \in RecreateMacs : ProjAllocateIp(mac)
    \/ \E p \in CallProjects : ProjDeleteProject(p)
    \/ \E address \in ByAddresses : ByAddressCall(WalkHandler, address)
    \/ ByAddressReturn(WalkHandler)

vars == <<vlanVars, netVars>>

Spec == Init /\ [][Next]_vars
SpecRace == InitRace /\ [][Steps]_vars
SpecNet == InitNet /\ [][NextNet]_vars
SpecNetRace == InitNet /\ [][NextNetRace]_vars
SpecNetBackend == InitNet /\ [][NextNetBackend]_vars
SpecPublic == Init /\ [][NextPublic]_vars
SpecPublicRace == Init /\ [][NextPublicRace]_vars
SpecPublicAbort == Init /\ [][NextPublicAbort]_vars
SpecProject == Init /\ [][NextProject]_vars
SpecCloudpipe == InitNet /\ [][NextCloudpipe]_vars
SpecPublicRestart == Init /\ [][NextPublicRestart]_vars
SpecProjectRecreate == Init /\ [][NextProjectRecreate]_vars
SpecPublicAllocRace == Init /\ [][NextPublicAllocRace]_vars
SpecByAddress == Init /\ [][NextByAddress]_vars
SpecAuth == Init /\ [][NextAuth]_vars

\* ------------------------------------------------------------------------
\* Properties of the VLAN allocator
\* ------------------------------------------------------------------------
\* The project recorded for id n in table tbl, and the ids without one.
Owners(tbl, n) == {p \in DOMAIN tbl : tbl[p] = Str(n)}
Unowned(tbl) == {n \in VlanRange : Owners(tbl, n) = {}}
\* Ids whose recorded owner is not among the live projects projs.
Orphaned(tbl, projs) == {n \in VlanRange : \E p \in Owners(tbl, n) : p \notin projs}
Lowest(S) == CHOOSE n \in S : \A m \in S : n <= m
Done(q) == call[q].pc = "done"
RetNum(q) == VlanNum(call[q].ret.vlan.vlan_id)
\* Two finished calls that ran at the same time, each for an existing tenant
\* that had no VLAN when its call began.
RacedFirstCalls(q1, q2) ==
    /\ q1 # q2 /\ Done(q1) /\ Done(q2)
    /\ call[q1].conc /\ call[q2].conc
    /\ call[q1].fresh /\ call[q2].fresh
    /\ call[q1].project_id \in projects /\ call[q2].project_id \in projects
    /\ call[q1].ret.status = "ok" /\ call[q2].ret.status = "ok"

\* C1: two get_vlan_for_project calls that run concurrently for two different
\* tenants without a VLAN never return the same VLAN id, and the VLAN table
\* never records one id for two tenants.
C1_RaceDistinctTenantsDistinctVlans ==
    \A q1, q2 \in Procs :
        (RacedFirstCalls(q1, q2) /\ call[q1].project_id # call[q2].project_id)
            => /\ RetNum(q1) # RetNum(q2)
               /\ \A n \in VlanRange :
                     ~({call[q1].project_id, call[q2].project_id} \subseteq Owners(vlans, n))

\* C2: after any sequence of sequential get_vlan_for_project calls and tenant
\* deletions, no VLAN id of [vlan_start, vlan_end) is recorded in the VLAN
\* table for more than one project.
C2_OneProjectPerVlan ==
    \A n \in VlanRange : Cardinality(Owners(vlans, n)) <= 1

\* C2 witness: a call has reclaimed an id in a full table after a deletion.
C2_Witness ==
    \E q \in Procs :
        /\ Done(q) /\ call[q].ret.via = "reclaim"
        /\ Unowned(vlans) = {}
        /\ projects # ProjectIds

\* C3: for every existing tenant p, every successful or failed call of
\* get_vlan_for_project(p) that follows p's first successful call returns the
\* VLAN number that first call returned, whatever calls for other tenants
\* completed in between (the first call returns the number as an int, the
\* later ones as the decimal string read back from the store).
C3_RepeatedCallSameVlan ==
    \A q \in Procs :
        (Done(q) /\ call[q].project_id \in projects /\ firstRet[call[q].project_id] # 0)
            => /\ call[q].ret.status = "ok"
               /\ RetNum(q) = firstRet[call[q].project_id]

\* C3 witness: a repeated call for p returned through the lookup after another
\* tenant's call, with a tenant deleted and every id of the pool owned.
C3_Witness ==
    \E q \in Procs :
        /\ Done(q) /\ call[q].ret.via = "lookup"
        /\ call[q].project_id \in projects
        /\ between[call[q].project_id]
        /\ "str" \in DOMAIN call[q].ret.vlan.vlan_id
        /\ Unowned(vlans) = {}
        /\ projects # ProjectIds

\* C4: two first-time get_vlan_for_project calls for the same tenant that run
\* concurrently both return the same VLAN id.
C4_RaceSameTenantSameVlan ==
    \A q1, q2 \in Procs :
        (RacedFirstCalls(q1, q2) /\ call[q1].project_id = call[q2].project_id)
            => RetNum(q1) = RetNum(q2)

\* C5 as stated: a tenant without a VLAN gets the lowest id that has no
\* recorded owner whenever there is one, and an id of a vanished tenant is
\* reclaimed only when every id of the range has an owner.
C5_LowestUnownedAssigned ==
    \A q \in Procs :
        (Done(q) /\ call[q].fresh /\ Unowned(call[q].startTbl) # {})
            => /\ call[q].ret.status = "ok"
               /\ RetNum(q) = Lowest(Unowned(call[q].startTbl))
               /\ call[q].ret.via # "reclaim"

\* C5 amended: a tenant without a VLAN gets the lowest id of the range that
\* has no recorded owner or whose recorded owner no longer exists; the id is
\* reclaimed exactly when it had an owner, also while higher ids are unowned.
C5_LowestFreeOrOrphanedAssigned ==
    \A q \in Procs :
        LET free == Unowned(call[q].startTbl)
                      \cup Orphaned(call[q].startTbl, call[q].startProjects)
        IN  (Done(q) /\ call[q].fresh /\ free # {})
                => /\ call[q].ret.status = "ok"
                   /\ RetNum(q) = Lowest(free)
                   /\ (call[q].ret.via = "reclaim")
                         <=> (Lowest(free) \notin Unowned(call[q].startTbl))
                   /\ vlans[call[q].project_id] = Str(Lowest(free))

\* C5 witness: an orphaned id was reclaimed while a higher id had no owner.
C5_Witness ==
    \E q \in Procs :
        /\ Done(q) /\ call[q].fresh
        /\ call[q].ret.via = "reclaim"
        /\ Unowned(call[q].startTbl) # {}
        /\ RetNum(q) < Lowest(Unowned(call[q].startTbl))

\* C6: when every id of the range is owned and at least one owner no longer
\* exists, get_vlan_for_project(D) for a tenant D without a VLAN returns the
\* id of the lowest-id vanished owner; afterwards that id is recorded for D
\* and the vanished tenant has no VLAN record.
C6_ReclaimLowestOrphan ==
    \A q \in Procs :
        LET orphans == Orphaned(call[q].startTbl, call[q].startProjects)
        IN  (Done(q) /\ call[q].fresh /\ Unowned(call[q].startTbl) = {} /\ orphans # {})
                => /\ call[q].ret.status = "ok"
                   /\ RetNum(q) = Lowest(orphans)
                   /\ Owners(vlans, Lowest(orphans)) = {call[q].project_id}
                   /\ \A old \in Owners(call[q].startTbl, Lowest(orphans)) :
                         old \notin DOMAIN vlans

\* C6 witness: a call for a fourth tenant reclaimed an id of the full pool
\* that was not the lowest id of the range.
C6_Witness ==
    \E q \in Procs :
        /\ Done(q) /\ call[q].fresh
        /\ Unowned(call[q].startTbl) = {}
        /\ call[q].ret.via = "reclaim"
        /\ RetNum(q) > vlan_start

\* C7: when every id of the range is owned by a tenant that still exists,
\* get_vlan_for_project for a tenant without a VLAN fails with
\* ResourcePoolExhausted, an error kind other than AddressNotAllocated.
C7_ExhaustedPoolRaisesResourcePoolExhausted ==
    \A q \in Procs :
        (/\ Done(q) /\ call[q].fresh
         /\ Unowned(call[q].startTbl) = {}
         /\ Orphaned(call[q].startTbl, call[q].startProjects) = {})
            => /\ call[q].ret.status = "raise"
               /\ call[q].ret.exc = "ResourcePoolExhausted"
               /\ call[q].ret.exc # "AddressNotAllocated"

\* ------------------------------------------------------------------------
\* Properties of the DHCP network
\* ------------------------------------------------------------------------
\* Offset of an address within the network's subnet.
Offset(address) == Undot(address) - Undot(network.network_str.first)
\* Offsets the claims call reserved: [0, NUM_STATIC_IPS) and
\* [size - 1 - cnt_vpn_clients, size).
ReservedOffsets ==
    (0 .. (NUM_STATIC_IPS - 1))
        \cup ((network_size - 1 - cnt_vpn_clients) .. (network_size - 1))

\* C8: after any sequence of allocate_ip, allocate_vpn_ip and release_ip
\* calls, the network's DHCP server is running if and only if its lease
\* mapping is non-empty.
C8_DhcpRunningIffLeased ==
    (backend.dnsmasq = "running") <=> (Assigned(hosts) # {})

\* C9: after release_ip of one address on a network that still has other
\* leases, the lease set the DHCP server was last (re)started with equals the
\* current lease mapping and does not contain the released address.
C9_RestartServesCurrentLeases ==
    (last.op = "release_ip" /\ last.status = "ok" /\ Assigned(hosts) # {})
        => /\ backend.dhcp_hosts = hosts
           /\ last.address \notin DOMAIN backend.dhcp_hosts

\* C10: allocate_ip never returns an address at offsets [0, NUM_STATIC_IPS)
\* or [size - 1 - cnt_vpn_clients, size) of the subnet, and never adds such
\* an address to the lease mapping.
C10_AllocateIpAvoidsReserved ==
    last.op = "allocate_ip"
        => /\ last.status = "ok" => Offset(last.ret) \notin ReservedOffsets
           /\ \A a \in last.added : Offset(a) \notin ReservedOffsets

\* C10 witness: with the cloudpipe slot leased, allocate_ip handed out the
\* last address below the block kept for vpn clients.
C10_Witness ==
    /\ last.op = "allocate_ip" /\ last.status = "ok"
    /\ Offset(last.ret) = network_size - 2 - cnt_vpn_clients
    /\ last.added = {last.ret}
    /\ NetAt(network, 2) \in Assigned(hosts)
    /\ Available(network, hosts) = {}

\* Offsets open to allocate_ip: after the static block, below the vpn clients.
LeasableOffsets == NUM_STATIC_IPS .. (network_size - 2 - cnt_vpn_clients)
\* The leasable offsets whose address is not in lease mapping h.
FreeOffsets(h) == {i \in LeasableOffsets : NetAt(network, i) \notin DOMAIN h}

\* C12: a successful allocate_ip returns the lowest-offset address of the
\* leasable range that is not in the lease mapping when the call is made, and
\* records it there with the caller's consumer target, touching no other lease.
C12_AllocateIpLowestFree ==
    [][(last'.op = "allocate_ip" /\ last'.status = "ok")
          => /\ FreeOffsets(hosts) # {}
             /\ last'.ret = NetAt(network, Lowest(FreeOffsets(hosts)))
             /\ DOMAIN hosts' = (DOMAIN hosts) \cup {last'.ret}
             /\ hosts'[last'.ret] = last'.mac
             /\ \A a \in DOMAIN hosts : hosts'[a] = hosts[a]]_vars

\* C12 witness: allocate_ip filled a gap below leased addresses, for the
\* second consumer target.
C12_Witness ==
    /\ last.op = "allocate_ip" /\ last.status = "ok"
    /\ last.mac = "02:16:3e:00:00:02"
    /\ hosts[last.ret] = last.mac
    /\ \E a \in DOMAIN hosts : Offset(a) > Offset(last.ret) /\ hosts[a] # last.mac

\* C13: release_ip(a) straight after the allocate_ip that returned a succeeds,
\* leaves a out of the lease mapping and allocatable again, and leaves every
\* other lease as it was.
C13_AllocateThenRelease ==
    [][(/\ last.op = "allocate_ip" /\ last.status = "ok"
        /\ last'.op = "release_ip" /\ last'.address = last.ret)
          => /\ last'.status = "ok"
             /\ last.ret \notin DOMAIN hosts'
             /\ Offset(last.ret) \in FreeOffsets(hosts')
             /\ DOMAIN hosts' = (DOMAIN hosts) \ {last.ret}
             /\ \A a \in DOMAIN hosts' : hosts'[a] = hosts[a]]_vars

\* C13 witness: a leasable address has been released while other leases stay.
C13_Witness ==
    /\ last.op = "release_ip" /\ last.status = "ok"
    /\ Offset(last.address) \in FreeOffsets(hosts)
    /\ Cardinality(DOMAIN hosts) >= 2

\* C14: release_ip of an address that is not in the lease mapping fails with
\* AddressNotAllocated, changes no stored state and makes no backend call.
C14_ReleaseUnleasedFails ==
    [][(last'.op = "release_ip" /\ last'.address \notin DOMAIN hosts)
          => /\ last'.status = "raise" /\ last'.exc = "AddressNotAllocated"
             /\ hosts' = hosts
             /\ backend'.log = << >>
             /\ backend' = Entered(backend)]_vars

\* C14 witness: a release of an unleased address of a network that holds
\* leases and whose DHCP server runs has failed.
C14_Witness ==
    /\ last.op = "release_ip" /\ last.status = "raise"
    /\ last.address \notin DOMAIN hosts
    /\ DOMAIN hosts # {}
    /\ backend.dnsmasq = "running"

\* C15: allocate_ip fails, with the pool-exhaustion error NoMoreAddresses, if
\* and only if every address of the leasable range is leased; when it fails
\* the lease mapping is unchanged and express makes no backend call.
C15_AllocateIpFailsIffExhausted ==
    [][last'.op = "allocate_ip"
          => /\ (last'.status = "raise") <=> (FreeOffsets(hosts) = {})
             /\ last'.status = "raise"
                  => /\ last'.exc = "NoMoreAddresses"
                     /\ hosts' = hosts
                     /\ backend' = Entered(backend)]_vars

\* C15 witness: allocate_ip failed on a network whose leasable range is full
\* while the cloudpipe slot is still free.
C15_Witness ==
    /\ last.op = "allocate_ip" /\ last.status = "raise"
    /\ FreeOffsets(hosts) = {}
    /\ NetAt(network, 2) \notin DOMAIN hosts

\* C11: two allocate_ip calls that run concurrently on the same network never
\* return the same address.
C11_RaceDistinctAddresses ==
    \A q1, q2 \in Procs :
        (/\ q1 # q2
         /\ alloc[q1].pc = "done" /\ alloc[q1].status = "ok"
         /\ alloc[q2].pc = "done" /\ alloc[q2].status = "ok")
            => alloc[q1].ret # alloc[q2].ret

\* The private address a stored PublicAddress is bound to, Unbound if none.
BoundTo(a) == Get(records[a], "private_ip", Unbound)
\* A failed call left the store and the backend's rules alone and made no
\* backend call.
PubUntouched ==
    /\ pubHosts' = pubHosts
    /\ records' = records
    /\ backend'.rules = backend.rules
    /\ backend'.public_ips = backend.public_ips
    /\ backend'.log = << >>

\* C16: after any sequence of public allocate_ip, associate_address,
\* disassociate_address and release_ip calls, no two PublicAddress records are
\* bound to the same private_ip, and each public address is bound to at most
\* one private_ip (one record value, at most one DNAT target).
C16_OnePublicPerPrivate ==
    /\ \A a1, a2 \in DOMAIN records :
           (a1 # a2 /\ BoundTo(a1) # Unbound) => BoundTo(a1) # BoundTo(a2)
    /\ \A a \in PubAddresses :
           Cardinality({r \in backend.rules : r.chain = "PREROUTING" /\ r.d = a}) <= 1
C16_Witness ==
    \E a1, a2 \in DOMAIN records :
        /\ a1 # a2 /\ BoundTo(a1) # Unbound /\ BoundTo(a2) # Unbound
        /\ plast.op = "disassociate_address" /\ plast.status = "raise"

\* C17: two associate_address calls for two different public addresses and the
\* same private_ip, interleaved in any order: at most one succeeds and at most
\* one public address ends up bound to that private_ip.
C17_RaceOneBinding ==
    \A q1, q2 \in Procs :
        (/\ q1 # q2
         /\ assoc[q1].pc = "done" /\ assoc[q2].pc = "done"
         /\ assoc[q1].public_ip # assoc[q2].public_ip
         /\ assoc[q1].private_ip = assoc[q2].private_ip)
            => /\ ~(assoc[q1].status = "ok" /\ assoc[q2].status = "ok")
               /\ Cardinality({a \in DOMAIN records :
                                   BoundTo(a) = assoc[q1].private_ip}) <= 1

\* C18: associate_address on a leased public address fails with
\* AddressAlreadyAssociated when that address is already bound, and when
\* another public address is bound to the given private_ip; the bindings stay
\* as they were and no NAT rule is confirmed.
C18_AssociateBoundFails ==
    [][(/\ plast'.op = "associate_address"
        /\ plast'.public_ip \in DOMAIN pubHosts
        /\ \/ BoundTo(plast'.public_ip) # Unbound
           \/ \E a \in DOMAIN pubHosts : BoundTo(a) = plast'.private_ip)
          => /\ plast'.status = "raise"
             /\ plast'.exc = "AddressAlreadyAssociated"
             /\ PubUntouched]_vars
C18_Witness ==
    /\ plast.op = "associate_address"
    /\ plast.exc = "AddressAlreadyAssociated"
    /\ plast.public_ip \in DOMAIN records
    /\ BoundTo(plast.public_ip) = Unbound
    /\ \E a \in DOMAIN records : a # plast.public_ip /\ BoundTo(a) = plast.private_ip

\* C19: associate_address on a public address that is not leased fails with
\* AddressNotAllocated, creates no binding and confirms no NAT rule.
C19_AssociateUnleasedFails ==
    [][(plast'.op = "associate_address" /\ plast'.public_ip \notin DOMAIN pubHosts)
          => /\ plast'.status = "raise"
             /\ plast'.exc = "AddressNotAllocated"
             /\ PubUntouched]_vars
C19_Witness ==
    /\ plast.op = "associate_address"
    /\ plast.exc = "AddressNotAllocated"
    /\ \E idx \in PubAvailableRange : plast.public_ip = NetAt(PublicNetwork, idx)
    /\ pubHosts # EmptyHash

\* C20: disassociate_address fails with AddressNotAllocated when the public
\* address is not leased and with AddressNotAssociated when it is leased but
\* unbound; no rule is removed and no record changes.
C20_DisassociateFails ==
    [][plast'.op = "disassociate_address"
          => /\ plast'.public_ip \notin DOMAIN pubHosts
                    => /\ plast'.status = "raise"
                       /\ plast'.exc = "AddressNotAllocated"
                       /\ PubUntouched
             /\ (/\ plast'.public_ip \in DOMAIN pubHosts
                 /\ BoundTo(plast'.public_ip) = Unbound)
                    => /\ plast'.status = "raise"
                       /\ plast'.exc = "AddressNotAssociated"
                       /\ PubUntouched]_vars
C20_Witness ==
    /\ plast.op = "disassociate_address"
    /\ plast.exc = "AddressNotAssociated"
    /\ plast.public_ip \in DOMAIN records
    /\ \E a \in DOMAIN records : BoundTo(a) # Unbound

FirstCall(log, c) ==
    IF \E i \in 1 .. Len(log) : log[i] = c
    THEN CHOOSE i \in 1 .. Len(log) : log[i] = c /\ \A j \in 1 .. (i - 1) : log[j] # c
    ELSE 0

\* C28: the DHCP server is never started or restarted before the network's
\* VLAN interface and bridge have been created, and one express calls the
\* backend in the order VLAN interface, bridge, DHCP start, cloudpipe rules.
C28_BridgeBeforeDhcp ==
    [][/\ \A i \in 1 .. Len(backend'.log) :
              backend'.log[i] = "start_dnsmasq"
                  => \/ /\ network.vlan \in backend.vlan_ifaces
                        /\ network.bridge_name \in backend.bridges
                     \/ /\ 0 < FirstCall(backend'.log, "vlan_create")
                        /\ FirstCall(backend'.log, "vlan_create")
                               < FirstCall(backend'.log, "bridge_create")
                        /\ FirstCall(backend'.log, "bridge_create") < i
       /\ (last'.op \in {"allocate_ip", "allocate_vpn_ip"} /\ last'.status = "ok")
              => backend'.log = <<"vlan_create", "bridge_create", "start_dnsmasq",
                                  "confirm_rule", "confirm_rule">>]_vars
C28_Witness ==
    /\ last.op = "allocate_ip" /\ last.status = "ok"
    /\ Cardinality(DOMAIN hosts) = 1
    /\ backend.dnsmasq = "running"
    /\ network.vlan \in backend.vlan_ifaces
    /\ network.bridge_name \in backend.bridges

\* C29: allocate_vpn_ip returns the address at offset 2 and records it with
\* the caller's consumer target whatever else is leased; it never fails, also
\* when every ordinary address or the slot itself is already leased.
C29_VpnSlotAlwaysAllocated ==
    [][last'.op = "allocate_vpn_ip"
          => /\ last'.status = "ok"
             /\ last'.ret = NetAt(network, 2)
             /\ DOMAIN hosts' = (DOMAIN hosts) \cup {last'.ret}
             /\ hosts'[last'.ret] = last'.mac
             /\ \A a \in (DOMAIN hosts) \ {last'.ret} : hosts'[a] = hosts[a]]_vars
C29_Witness ==
    /\ last.op = "allocate_vpn_ip" /\ last.status = "ok"
    /\ last.added = {}
    /\ FreeOffsets(hosts) = {}
    /\ hosts[last.ret] = last.mac

\* C30: after any sequence of public allocate_ip, associate_address,
\* disassociate_address and release_ip calls, the DNAT rule and the SNAT rule
\* for (public_ip, private_ip) are in the backend if and only if public_ip is
\* leased and bound to private_ip, also after release_ip of a bound address.
C30_NatRulesIffBound ==
    \A a \in PubAddresses, p \in PrivateIps :
        LET bound == a \in DOMAIN pubHosts /\ a \in DOMAIN records /\ BoundTo(a) = p
        IN  /\ (Rule("PREROUTING", a, "", 0, p) \in backend.rules) <=> bound
            /\ (Rule("POSTROUTING", p, "", 0, a) \in backend.rules) <=> bound
C30_Witness ==
    /\ plast.op = "deallocate_ip" /\ plast.status = "ok"
    /\ plast.private_ip \in PrivateIps
    /\ plast.public_ip \notin DOMAIN pubHosts
    /\ \E a \in DOMAIN records : BoundTo(a) \in PrivateIps

\* Offset of a public address within public_range.
PubOffset(address) == Undot(address) - public_range

\* C23 as stated: allocation from the public pool keeps back only the network
\* and the broadcast address, so once allocate_ip finds the pool exhausted
\* every other address of the range, the one at offset 1 included, is leased.
C23_OnlyNetworkAndBroadcastReserved ==
    (plast.op = "allocate_ip" /\ plast.exc = "NoMoreAddresses")
        => \A idx \in 1 .. (public_size - 2) :
               Dotted(public_range + idx) \in DOMAIN pubHosts

\* C23 amended: allocation from the public pool keeps back the network
\* address, the address at offset 1 and the broadcast address: allocate_ip
\* returns only offsets 2 .. size - 2, and once it finds the pool exhausted
\* exactly those addresses are leased.
C23_NetworkGatewayAndBroadcastReserved ==
    /\ \A a \in DOMAIN pubHosts : PubOffset(a) \in 2 .. (public_size - 2)
    /\ (plast.op = "allocate_ip" /\ plast.status = "ok")
           => PubOffset(plast.ret) \in 2 .. (public_size - 2)
    /\ (plast.op = "allocate_ip" /\ plast.exc = "NoMoreAddresses")
           => DOMAIN pubHosts = {Dotted(public_range + idx) : idx \in 2 .. (public_size - 2)}
C23_Witness ==
    /\ plast.op = "allocate_ip" /\ plast.exc = "NoMoreAddresses"
    /\ Cardinality(DOMAIN pubHosts) = public_size - 3
    /\ Dotted(public_range + 1) \notin DOMAIN pubHosts

\* ------------------------------------------------------------------------
\* Backend failures and direct express
\* ------------------------------------------------------------------------
\* C21: when a backend call made by express fails during allocate_ip, the
\* lease allocate_ip had just recorded is rolled back: after the failed call
\* the address is not in the lease mapping.
C21_FailedExpressRollsBackLease ==
    [][(last'.op = "allocate_ip" /\ last'.exc = "BackendActivationFailed")
          => /\ last'.address \notin DOMAIN hosts'
             /\ hosts' = hosts]_vars

\* C27: express on a DHCP network whose lease mapping is empty leaves the DHCP
\* server stopped, also when it was running before the call.
C27_ExpressWithoutLeasesStopsDhcp ==
    [][(last'.op = "express" /\ Assigned(hosts) = {})
          => backend'.dnsmasq = "stopped"]_vars

\* C22: if a public-address allocation is aborted at any step, then afterwards
\* either the address is in the public lease mapping and has a PublicAddress
\* record with owner fields and an "available" binding, or it is in neither;
\* a lease without its record never remains.
C22_AbortedAllocationAllOrNothing ==
    /\ \A a \in DOMAIN pubHosts :
           a \in DOMAIN records /\ {"user_id", "project_id"} \subseteq DOMAIN records[a]
    /\ (plast.op = "allocate_ip" /\ plast.status = "abort")
           => LET a == plast.public_ip
              IN  \/ /\ a \in DOMAIN pubHosts /\ a \in DOMAIN records
                     /\ {"user_id", "project_id"} \subseteq DOMAIN records[a]
                     /\ BoundTo(a) = Unbound
                  \/ a \notin DOMAIN pubHosts /\ a \notin DOMAIN records

\* ------------------------------------------------------------------------
\* Properties of get_project_network
\* ------------------------------------------------------------------------
\* C24: constructing a DHCP network as get_project_network does performs the
\* Bridged transition at once: when it returns, the network's VLAN interface
\* and bridge have been created in the backend.
C24_ConstructionCreatesBridge ==
    (pnet.last.op = "get_project_network" /\ pnet.last.status = "ok")
        => /\ network.vlan \in backend.vlan_ifaces
           /\ network.bridge_name \in backend.bridges

\* C25: a second get_project_network for the same existing project and
\* security group yields the same network_id, VLAN id and subnet as the first,
\* consumes no second VLAN, and the lease mapping seen through its result
\* contains every lease made through the first.
C25_GetProjectNetworkIdempotent ==
    LET p == pnet.last.project_id
    IN  (/\ pnet.last.op = "get_project_network" /\ pnet.last.status = "ok"
         /\ pnet.calls[p] >= 2)
            => /\ network.network_id = pnet.first[p].network_id
               /\ network.vlan = pnet.first[p].vlan
               /\ network.network_str = pnet.first[p].network_str
               /\ ~pnet.last.consumed
               /\ p = LeaseProject
                      => pnet.leased \subseteq DOMAIN HostsAt(hostsBy, network)
C25_Witness ==
    /\ pnet.last.op = "get_project_network" /\ pnet.last.status = "ok"
    /\ pnet.last.project_id = LeaseProject
    /\ pnet.calls[LeaseProject] = 2
    /\ pnet.leased # {}
    /\ \E p \in NetProjects \ {LeaseProject} : pnet.calls[p] > 0


\* ------------------------------------------------------------------------
\* Properties of the public pool beside a tenant's network
\* ------------------------------------------------------------------------
\* The rules one binding's express confirms, as a set.
PublicRuleSet(public_ip, private_ip) ==
    {PublicRules(public_ip, private_ip)[i] :
        i \in 1 .. Len(PublicRules(public_ip, private_ip))}

\* A successful disassociate_address(pub) that follows at once a successful
\* associate_address(pub, priv, i): the backend's log is still that of the
\* associate's express.
RoundTrip ==
    /\ plast.op = "associate_address" /\ plast.status = "ok"
    /\ backend.log # << >> /\ Head(backend.log) = "bind_public_ip"
    /\ plast'.op = "disassociate_address" /\ plast'.status = "ok"
    /\ plast'.public_ip = plast.public_ip

\* C31: associate_address(pub, priv, i) followed by disassociate_address(pub)
\* leaves pub leased and its record's private_ip and instance_id "available",
\* and the backend's rules and bound addresses are those found before the
\* associate.
C31_AssociateDisassociateRoundTrip ==
    [][RoundTrip =>
          LET pub == plast.public_ip
          IN  /\ pub \in Assigned(pubHosts')
              /\ records'[pub]["private_ip"] = Unbound
              /\ records'[pub]["instance_id"] = "available"
              /\ backend'.rules = plast.before.rules
              /\ backend'.public_ips = plast.before.public_ips]_vars

\* The FORWARD rule express_cloudpipe confirms for the network's vpn address.
CloudpipeForward == Rule("FORWARD", NetAt(network, 2), "udp", 1194, "ACCEPT")

\* C36: once express has confirmed the cloudpipe FORWARD rule of the DHCP
\* network (udp port 1194 to the address at offset 2), no call on the public
\* pool removes it: a step that starts with the rule present ends with it
\* present.
C36_CloudpipeRuleKept ==
    [][(CloudpipeForward \in backend.rules) => (CloudpipeForward' \in backend'.rules)]_vars

\* C32: every address the public pool's allocate_ip returns has, at return, a
\* record whose private_ip and instance_id are "available"; so has an address
\* that was released while it was bound and is handed out again, and a
\* release leaves no record of the address behind.
C32_AllocatedRecordAvailable ==
    [][/\ (plast'.op = "allocate_ip" /\ plast'.status = "ok" /\ plast' # plast)
          => /\ plast'.ret \in DOMAIN records'
             /\ Get(records'[plast'.ret], "private_ip", None) = Unbound
             /\ Get(records'[plast'.ret], "instance_id", None) = "available"
             /\ plast'.ret \in Assigned(pubHosts')
       /\ (plast'.op = "deallocate_ip" /\ plast'.status = "ok" /\ plast' # plast)
          => plast'.public_ip \notin DOMAIN records']_vars

\* An address released while bound has been handed out again, unbound.
C32_Witness ==
    /\ plast.op = "allocate_ip" /\ plast.status = "ok" /\ plast.reissued
    /\ records[plast.ret]["private_ip"] = Unbound

\* The leased public addresses whose record is bound.
Associated(h, recs) ==
    {a \in Assigned(h) : Get(PublicAddress(recs, a), "private_ip", Unbound) # Unbound}
\* The rules of all of them.
AssociatedRules(h, recs) ==
    UNION {PublicRuleSet(a, PublicAddress(recs, a)["private_ip"]) : a \in Associated(h, recs)}

\* C33: constructing a PublicNetworkController confirms the rules and the
\* interface binding of every associated public address and of no other one;
\* when they are all present already, the construction leaves the backend's
\* rules and bound addresses as they were.
C33_ConstructionReconfirmsRules ==
    [][plast'.op = "__init__" =>
          LET bound == Associated(pubHosts, records)
              rules == AssociatedRules(pubHosts, records)
          IN  /\ rules \subseteq backend'.rules
              /\ bound \subseteq backend'.public_ips
              /\ backend'.rules = backend.rules \cup rules
              /\ backend'.public_ips = backend.public_ips \cup bound
              /\ (rules \subseteq backend.rules /\ bound \subseteq backend.public_ips)
                    => /\ backend'.rules = backend.rules
                       /\ backend'.public_ips = backend.public_ips]_vars

\* A construction after a restart has put back the rules of an associated
\* address while another leased address is unassociated.
C33_Witness ==
    /\ plast.op = "__init__"
    /\ plast.before.rules = {} /\ backend.rules # {}
    /\ Associated(pubHosts, records) # {}
    /\ Assigned(pubHosts) \ Associated(pubHosts, records) # {}

\* ------------------------------------------------------------------------
\* Properties of the tenants' subnets
\* ------------------------------------------------------------------------
\* The address numbers of a network_str "first-last".
AddressRange(network_str) == Undot(network_str.first) .. Undot(network_str.last)
\* The tenant's default network record, and whether the tenant holds a VLAN
\* and its stored network carries that VLAN.
TenantNet(p) == nets[<<p, "default">>]
HoldsNetwork(p) ==
    /\ p \in DOMAIN vlans
    /\ <<p, "default">> \in DOMAIN nets
    /\ TenantNet(p).vlan = ParseInt(vlans[p])

\* Vlan.subnet gives distinct ids of the pool ranges of network_size addresses
\* with no address in common.
SubnetsDisjoint ==
    \A v1, v2 \in VlanRange :
        /\ Cardinality(AddressRange(Subnet(IntId(v1)))) = network_size
        /\ Subnet(IntId(v1)) = Subnet(StrId(Str(v1)))
        /\ v1 # v2 => AddressRange(Subnet(IntId(v1))) \cap AddressRange(Subnet(IntId(v2))) = {}

\* C34: Vlan.subnet gives any two distinct VLAN ids of the pool ranges of
\* exactly network_size addresses that do not overlap, and the networks of two
\* tenants that hold different VLANs have no address and no lease mapping in
\* common.
C34_TenantSubnetsDisjoint ==
    /\ SubnetsDisjoint
    /\ \A p1, p2 \in NetProjects :
          (HoldsNetwork(p1) /\ HoldsNetwork(p2) /\ vlans[p1] # vlans[p2])
             => /\ AddressRange(TenantNet(p1).network_str)
                       \cap AddressRange(TenantNet(p2).network_str) = {}
                /\ HostsKey(TenantNet(p1)) # HostsKey(TenantNet(p2))

\* get_project_network returns to handler q a network for a VLAN reclaimed
\* from LeaseProject, whose leases were made in that VLAN's subnet.
ReclaimedFromLeaseProject(q) ==
    /\ call[q].pc = "done" /\ call'[q].pc = "idle"
    /\ call[q].ret.status = "ok" /\ call[q].ret.via = "reclaim"
    /\ call[q].old_project_id = LeaseProject
    /\ pnet.first[LeaseProject].network_str = Subnet(call[q].ret.vlan.vlan_id)

\* C35: reclaiming a VLAN changes only the VLAN table, not the lease mapping
\* of the VLAN's subnet: the addresses the vanished tenant leased are leased in
\* the network the new owner obtains for the VLAN, and allocate_ip on that
\* network does not hand them out.
C35_ReclaimKeepsLeases ==
    [][/\ vlans' # vlans => (hostsBy' = hostsBy /\ nets' = nets)
       /\ \A q \in Procs :
             ReclaimedFromLeaseProject(q)
                => /\ hostsBy' = hostsBy
                   /\ pnet.leased \subseteq Assigned(HostsAt(hostsBy', network'))
                   /\ \A a \in pnet.leased :
                         \A idx \in Available(network', HostsAt(hostsBy', network')) :
                             NetAt(network', idx) # a
       /\ (pnet'.last.op = "allocate_ip" /\ pnet'.last.status = "ok"
             /\ pnet'.last.project_id # LeaseProject /\ pnet' # pnet)
                => pnet'.last.ret \notin pnet.leased]_vars

\* The new owner of a reclaimed VLAN has allocated an address in its network,
\* which holds the leases of the vanished tenant.
C35_Witness ==
    /\ pnet.last.op = "allocate_ip" /\ pnet.last.status = "ok"
    /\ pnet.last.project_id # LeaseProject
    /\ LeaseProject \notin projects /\ LeaseProject \notin DOMAIN vlans
    /\ pnet.leased # {}
    /\ pnet.leased \subseteq Assigned(HostsAt(hostsBy, network))
    /\ pnet.last.ret \in Assigned(HostsAt(hostsBy, network)) \ pnet.leased

\* ------------------------------------------------------------------------
\* allocate_ip of the public pool against associate_address
\* ------------------------------------------------------------------------
\* Handler qa has associated the address that handler ql was leasing: the
\* association passed its lease test after the hset of line 414, and both
\* calls have returned.
AssociatedWhileLeasing(ql, qa) ==
    /\ alloc[ql].pc = "done" /\ alloc[ql].status = "ok"
    /\ assoc[qa].pc = "done" /\ assoc[qa].status = "ok"
    /\ assoc[qa].public_ip = alloc[ql].ret

\* C37: when associate_address(pub, ...) runs while allocate_ip is leasing pub,
\* a successful association is not overwritten with "available": once both
\* have returned the record of pub is bound as the association bound it, and
\* the DNAT rule of pub is in the backend only if the record is bound.
C37_AssociationNotOverwritten ==
    \A ql, qa \in Procs :
        AssociatedWhileLeasing(ql, qa)
           => LET pub == alloc[ql].ret
              IN  /\ pub \in DOMAIN records
                  /\ BoundTo(pub) = assoc[qa].private_ip
                  /\ \A p \in PrivateIps :
                        Rule("PREROUTING", pub, "", 0, p) \in backend.rules
                           => BoundTo(pub) = p

\* ------------------------------------------------------------------------
\* get_project_network and get_network_by_address
\* ------------------------------------------------------------------------
\* C38: get_project_network for a project id that does not exist raises
\* NotFound and leaves the store alone: it never enters get_vlan_for_project,
\* the VLAN table, the network records and the lease mappings are unchanged
\* and no backend call is made.
C38_UnknownProjectNotFound ==
    [][/\ (pnet' # pnet /\ pnet'.last.op = "get_project_network"
              /\ pnet'.last.project_id \notin projects)
            => /\ pnet'.last.status = "raise" /\ pnet'.last.exc = "NotFound"
               /\ vlans' = vlans /\ nets' = nets /\ hostsBy' = hostsBy
               /\ backend'.log = << >> /\ backend'.rules = backend.rules
       /\ \A q \in Procs :
             (call[q].pc = "idle" /\ call'[q].pc # "idle")
                => call'[q].project_id \in projects]_vars

\* NotFound was raised for a deleted project while another tenant holds a
\* VLAN and a network.
C38_Witness ==
    /\ pnet.last.op = "get_project_network" /\ pnet.last.exc = "NotFound"
    /\ pnet.last.project_id \notin projects
    /\ vlans # EmptyHash /\ DOMAIN nets # {}

\* The steps of get_network_by_address leave the lease mappings, the public
\* pool, its records and the associations as they are.
WalkKeepsLeases ==
    (pnet.walk.pc = "walking" \/ pnet'.walk.pc = "walking")
        => /\ hostsBy' = hostsBy /\ hosts' = hosts
           /\ pubHosts' = pubHosts /\ records' = records /\ assoc' = assoc

\* When a visit is over, the VLAN entries and network records present when
\* the call was entered are as they were, and every entry or record added is
\* that of an existing project the call visited.
WalkOnlyCreates ==
    (pnet.walk.pc = "walking" /\ call[WalkHandler].pc = "done")
        => LET w == pnet.walk
           IN  /\ \A p \in DOMAIN w.vlans0 : p \in DOMAIN vlans' /\ vlans'[p] = w.vlans0[p]
               /\ \A p \in (DOMAIN vlans') \ (DOMAIN w.vlans0) :
                      p \in w.visited /\ p \in projects
               /\ \A k \in DOMAIN w.nets0 : k \in DOMAIN nets' /\ nets'[k] = w.nets0[k]
               /\ \A k \in (DOMAIN nets') \ (DOMAIN w.nets0) :
                      k[1] \in w.visited /\ k[1] \in projects

\* As WalkOnlyCreates, but the entry of a project that no longer exists may
\* be gone, its VLAN id then being held by a visited project that had none,
\* and the record of a visited project may carry the VLAN the project now
\* holds.
WalkCreatesOrReclaims ==
    (pnet.walk.pc = "walking" /\ call[WalkHandler].pc = "done")
        => LET w == pnet.walk
           IN  /\ \A p \in DOMAIN w.vlans0 :
                      \/ p \in DOMAIN vlans' /\ vlans'[p] = w.vlans0[p]
                      \/ /\ p \notin projects /\ p \notin DOMAIN vlans'
                         /\ \E v \in w.visited \ DOMAIN w.vlans0 :
                               v \in DOMAIN vlans' /\ vlans'[v] = w.vlans0[p]
               /\ \A p \in (DOMAIN vlans') \ (DOMAIN w.vlans0) :
                      p \in w.visited /\ p \in projects
               /\ \A k \in DOMAIN w.nets0 :
                      /\ k \in DOMAIN nets'
                      /\ \/ nets'[k] = w.nets0[k]
                         \/ /\ k[1] \in w.visited /\ k[1] \in DOMAIN vlans'
                            /\ nets'[k] = [w.nets0[k] EXCEPT
                                     !.vlan = ParseInt(vlans'[k[1]]),
                                     !.bridge_name = <<"br", ParseInt(vlans'[k[1]])>>]
               /\ \A k \in (DOMAIN nets') \ (DOMAIN w.nets0) :
                      k[1] \in w.visited /\ k[1] \in projects

\* The call returns the network of a visited project that leases the address,
\* and raises AddressNotAllocated when no visited project's network does.
WalkOutcome ==
    (pnet.walk.pc = "walking" /\ pnet'.walk.pc = "idle")
        => LET w == pnet.walk
               leasing == {p \in w.visited :
                             /\ <<p, "default">> \in DOMAIN nets'
                             /\ w.address \in DOMAIN HostsAt(hostsBy, nets'[<<p, "default">>])}
           IN  /\ pnet'.last.op = "get_network_by_address"
               /\ pnet'.last.status \in {"ok", "raise"}
               /\ pnet'.last.status = "ok"
                     => /\ network'.project_id \in leasing
                        /\ network' = nets'[<<network'.project_id, "default">>]
               /\ leasing = {}
                     => /\ pnet'.last.status = "raise"
                        /\ pnet'.last.exc = "AddressNotAllocated"

\* C39 (as stated): get_network_by_address changes no lease mapping and no
\* public association; its only store effect is to create VLAN and network
\* records for the existing projects it visits that had none; it raises
\* AddressNotAllocated when no visited project's default network leases the
\* address.
C39_OnlyCreatesRecords ==
    [][WalkKeepsLeases /\ WalkOnlyCreates /\ WalkOutcome]_vars

\* C39 (amended): get_network_by_address changes no lease mapping and no
\* public association; it gives a VLAN and a network record to the existing
\* projects it visits that had none, and the VLAN may be one reclaimed from
\* a project that no longer exists, whose VLAN entry is then removed; it
\* raises AddressNotAllocated when no visited project's default network
\* leases the address.
C39_CreatesOrReclaimsRecords ==
    [][WalkKeepsLeases /\ WalkCreatesOrReclaims /\ WalkOutcome]_vars

\* The call found the address after giving VLANs to projects that had none,
\* one of them the VLAN of a deleted project whose network record remains.
C39_Witness ==
    /\ pnet.last.op = "get_network_by_address" /\ pnet.last.status = "ok"
    /\ \E p \in projects \ CallProjects : HoldsNetwork(p)
    /\ \E p \in CallProjects :
          /\ p \notin projects /\ p \notin DOMAIN vlans
          /\ <<p, "default">> \in DOMAIN nets
          /\ \E v \in projects \ CallProjects :
                HoldsNetwork(v) /\ TenantNet(v).vlan = TenantNet(p).vlan

\* ------------------------------------------------------------ tokens
\* The step is a call of authorize_token.
Presented == auth'.last.turn # auth.last.turn

\* The token presented is stored and was created less than TokenDays ago.
FreshToken(h) ==
    /\ h \in DOMAIN auth.tokens
    /\ auth.now - auth.tokens[h].created_at < TokenDays * TicksPerDay

\* C40: authorize_token returns the user only for a stored token created less
\* than 2 days ago; presenting a token aged 2 days or more yields None and
\* deletes the token, so every later presentation of it also yields None; an
\* unknown token yields None without any store change.
C40_TokenExpiry ==
    [][Presented =>
         LET h == auth'.last.token_hash
         IN  /\ auth'.last.op = "authorize_token"
             /\ auth'.last.ret # NoUser
                   => FreshToken(h) /\ auth'.last.ret = auth.tokens[h].user_id
             /\ (h \in DOMAIN auth.tokens /\ ~FreshToken(h))
                   => /\ auth'.last.ret = NoUser
                      /\ h \notin DOMAIN auth'.tokens
                      /\ \A x \in (DOMAIN auth.tokens) \ {h} :
                            x \in DOMAIN auth'.tokens /\ auth'.tokens[x] = auth.tokens[x]
             /\ h \in auth.expired
                   => auth'.last.ret = NoUser /\ h \notin DOMAIN auth.tokens
             /\ h \notin DOMAIN auth.tokens
                   => /\ auth'.last.ret = NoUser
                      /\ auth'.tokens = auth.tokens /\ auth'.users = auth.users]_vars

\* A token was presented when 2 days old, and presented again later while a
\* younger token of the same user is still honoured.
C40_Witness ==
    /\ auth.last.op = "authorize_token" /\ auth.last.ret = NoUser
    /\ auth.last.token_hash \in auth.expired
    /\ auth.last.token_hash \notin DOMAIN auth.tokens
    /\ \E x \in DOMAIN auth.tokens :
          /\ auth.now - auth.tokens[x].created_at = TokenDays * TicksPerDay - 1
          /\ auth.tokens[x].user_id \in auth.users
====
